---- MODULE Spec2Model ----
(***************************************************************************)
(* ConcoLLMic: the test-case corpus (app/agents/testcase.py), the          *)
(* test-case state machine (app/agents/states.py), the solution hand-off   *)
(* (app/agents/tools/provide_solution.py), the trace collector             *)
(* (app/agents/trace.py) and the coverage registry                         *)
(* (app/agents/coverage.py).                                               *)
(***************************************************************************)
EXTENDS Integers, Sequences, FiniteSets, TLC

(* ------------------------------ bounds --------------------------------- *)
\* ids 0 .. MaxCases-1 can be allocated
MaxCases == 2
\* the run clock (get_time_taken) takes the values 0 .. MaxTime
MaxTime == 2
\* load_testcases is called at most MaxLoads times
MaxLoads == 2
\* tasks 1 .. MaxCallers call create_new_testcase in parallel
MaxCallers == 2

(* --------------------------- TestcaseState ------------------------------ *)
SELECT == "SELECT"
SUMMARIZE == "SUMMARIZE"
SOLVE == "SOLVE"
EXECUTE == "EXECUTE"
REVIEW_SOLVER == "REVIEW_SOLVER"
REVIEW_SOLVER_EXECUTE == "REVIEW_SOLVER_EXECUTE"
REVIEW_SUMMARY == "REVIEW_SUMMARY"
REVIEW_SUMMARY_SOLVE == "REVIEW_SUMMARY_SOLVE"
REVIEW_SUMMARY_EXECUTE == "REVIEW_SUMMARY_EXECUTE"
FINISHED == "FINISHED"

TestcaseState ==
  { SELECT, SUMMARIZE, SOLVE, EXECUTE, REVIEW_SOLVER, REVIEW_SOLVER_EXECUTE,
    REVIEW_SUMMARY, REVIEW_SUMMARY_SOLVE, REVIEW_SUMMARY_EXECUTE, FINISHED }

(* ------------------------------ values ---------------------------------- *)
\* Python's None for an int-typed field (src_id, time_taken) and for a
\* str-typed field (exec_code)
NoneInt == -1
NoneStr == "None"

Last(s) == s[Len(s)]

IsPrefix(s, t) == Len(s) <= Len(t) /\ SubSeq(t, 1, Len(s)) = s

Max(a, b) == IF a >= b THEN a ELSE b

VARIABLES
  test_cases,        \* TestCaseManager.test_cases : id -> TestCase
  next_testcase_id,  \* TestCaseManager.next_testcase_id
  queue,             \* the files of <out_dir>/queue : file name -> content
  now,               \* the value get_time_taken() returns
  tasks,             \* ids of the cases whose solve+execute task is running
  loads,             \* the in_dir of every load_testcases call so far
  calls,             \* create_new_testcase calls of parallel tasks, statement by statement
  source,            \* the lines of the instrumented source file
  file2cov,          \* Coverage.file2cov[path]: the TraceCollector of the file, or None
  ingest,            \* the last call on the coverage registry and what it gave
  ingesting,         \* collect_trace calls of parallel tasks, statement by statement
  yaml_file,         \* one case file of the queue: its bytes and who holds its lock
  writers,           \* write_to_yaml_file calls on that file, step by step
  original,          \* a test case in memory
  restored,          \* what a conversion of `original` gave back
  save_process,      \* Coverage._save_process: the last save worker started, 0 for None
  workers,           \* the save workers started so far, each with its data and position
  cov_file,          \* the coverage file on disk
  saver,             \* the caller of save_to_file: idle, or waiting in join()
  loaded,            \* what the last Coverage.load_from_file call did
  sched_cache,       \* TestCaseScheduler: the cached message thread and the ids it has seen
  session,           \* one agent session: the message thread and the position in the loop
  tool               \* the last tool call handled and what its handler returned

corpusVars == <<test_cases, next_testcase_id, queue, now, tasks, loads, calls>>
traceVars == <<source, file2cov, ingest, ingesting>>
writeVars == <<yaml_file, writers>>
roundTripVars == <<original, restored>>
saveVars == <<save_process, workers, cov_file, saver, loaded>>
agentVars == <<sched_cache, session, tool>>
otherVars == <<saveVars, agentVars>>

vars == <<corpusVars, traceVars, writeVars, roundTripVars, otherVars>>

(* ------------------- the components at rest (no call yet) ---------------- *)
\* Coverage.file2cov has no entry for the file
NoCollector == [file_path |-> NoneStr]

\* target_lines = (None, None)
NoTarget == <<NoneInt, NoneInt>>

\* no call on the coverage registry so far
NoCall ==
  [ n |-> 0, op |-> NoneStr, trace |-> << >>, target_lines |-> NoTarget,
    add_coverage |-> FALSE, status |-> NoneStr, new_covered_lines |-> 0,
    is_target_lines_covered |-> FALSE, accounted |-> FALSE, again |-> FALSE ]

\* the case file does not exist and nobody holds its lock
NoFile == [exists |-> FALSE, bytes |-> << >>, locked_by |-> 0]

TraceIdle ==
  /\ source = << >>
  /\ file2cov = NoCollector
  /\ ingest = NoCall
  /\ ingesting = << >>

WriteIdle ==
  /\ yaml_file = NoFile
  /\ writers = << >>

\* no case was built, and nothing was converted back
NoCase == [id |-> NoneInt]

NoRestore == [route |-> NoneStr]

RoundTripIdle ==
  /\ original = NoCase
  /\ restored = NoRestore

\* no save worker was started, no coverage file was written
NoLoad == [status |-> NoneStr]

SaveIdle ==
  /\ save_process = 0
  /\ workers = << >>
  /\ cov_file = [state |-> "missing"]
  /\ saver = [pc |-> "idle"]
  /\ loaded = NoLoad

\* no agent session was started, no tool was called
NoSession == [pc |-> NoneStr]

NoToolCall == [name |-> NoneStr]

AgentIdle ==
  /\ sched_cache = [previous_ids |-> {}, msg_thread |-> << >>]
  /\ session = NoSession
  /\ tool = NoToolCall

OtherIdle == SaveIdle /\ AgentIdle

CorpusIdle ==
  /\ test_cases = << >>
  /\ next_testcase_id = 0
  /\ queue = << >>
  /\ now = 0
  /\ tasks = {}
  /\ loads = << >>
  /\ calls = << >>

(* ------------------------------ TestCase -------------------------------- *)
\* current_state: the last element of the state list, None when it is empty
current_state(tc) == IF tc.states = <<>> THEN NoneStr ELSE Last(tc.states)

\* __setattr__ without the FINISHED test
SetAttr_RefreshesFinished(tc, name, value) ==
  LET written == [tc EXCEPT ![name] = value]
  IN  IF name # "time_taken" /\ written.states # <<>>
      THEN [written EXCEPT !.time_taken = now]
      ELSE written

\* __setattr__: the attribute is written whatever the state of the case is;
\* time_taken follows the clock unless the case is FINISHED (or has no state)
SetAttr(tc, name, value) ==
  LET written == [tc EXCEPT ![name] = value]
  IN  IF /\ name # "time_taken"
         /\ written.states # <<>>
         /\ Last(written.states) # FINISHED
      THEN [written EXCEPT !.time_taken = now]
      ELSE written

\* the dataclass constructor: every field is assigned through __setattr__, in
\* declaration order, so the fields declared after `states` refresh time_taken
\* of a case that is not FINISHED
NewTestCase(id, src_id, time_taken, states, exec_code, target_covered, new_cov) ==
  LET fields ==
        [ id |-> id,
          src_id |-> src_id,
          time_taken |-> time_taken,
          states |-> states,
          is_target_covered |-> target_covered,
          new_coverage |-> new_cov,
          is_satisfiable |-> FALSE,
          is_crash |-> FALSE,
          is_hang |-> FALSE,
          selected_cnt |-> 0,
          successful_generation_cnt |-> 0,
          exec_code |-> exec_code ]
  IN  SetAttr(fields, "exec_code", exec_code)

\* add_state that replaces the list instead of appending to it
add_state_Replaces(tc, state) == [tc EXCEPT !.states = <<state>>]

\* add_state: list.append on the state list; no attribute is assigned, so
\* __setattr__ does not run
add_state(tc, state) == [tc EXCEPT !.states = Append(tc.states, state)]

\* create_initial that drops the seed's program
create_initial_DropsCode(id, exec_code) ==
  NewTestCase(id, NoneInt, 0, <<FINISHED>>, NoneStr, TRUE, TRUE)

\* create_initial that starts the seed like a generated case
create_initial_StartsSelected(id, exec_code) ==
  NewTestCase(id, NoneInt, 0, <<SELECT, SUMMARIZE>>, exec_code, TRUE, TRUE)

\* create_initial: the seed
create_initial(id, exec_code) ==
  NewTestCase(id, NoneInt, 0, <<FINISHED>>, exec_code, TRUE, TRUE)

\* from_src that starts the child at SUMMARIZE alone
from_src_child_SkipsSelect(src_tc, id) ==
  NewTestCase(id, src_tc.id, NoneInt, <<SUMMARIZE>>, NoneStr, FALSE, FALSE)

\* from_src that forgets the selection count of the parent
from_src_parent_ForgetsCount(src_tc) == src_tc

\* from_src: the child; the parent's selected_cnt += 1 goes through __setattr__
from_src_child(src_tc, id) ==
  NewTestCase(id, src_tc.id, NoneInt, <<SELECT, SUMMARIZE>>, NoneStr, FALSE, FALSE)

from_src_parent(src_tc) ==
  SetAttr(src_tc, "selected_cnt", src_tc.selected_cnt + 1)

\* save_to_disk: queue/id:NNNNNN[,src:NNNNNN].yaml is (over)written
FileName(tc) == <<tc.id, tc.src_id>>

save_to_disk(q, tc) ==
  [f \in DOMAIN q \cup {FileName(tc)} |-> IF f = FileName(tc) THEN tc ELSE q[f]]

\* get_historical_information: (failure_cnt, selected_cnt)
get_historical_information(tc) ==
  <<tc.selected_cnt - tc.successful_generation_cnt, tc.selected_cnt>>

is_valuable(tc) == tc.is_target_covered \/ tc.new_coverage

\* a ratio numerator/denominator of two integers, denominator > 0
RatioEq(a, b) == a[1] * b[2] = b[1] * a[2]

\* get_test_case_scheduling_information, the weight it returns:
\*   fail_ratio = failure_cnt / selected_cnt if selected_cnt > 0 else 0
\*   weight = 1 - fail_ratio
\*   return info, weight + 1 if tc.new_coverage else 0
get_test_case_scheduling_weight(tc) ==
  LET historical_fail_info == get_historical_information(tc)
      fail_ratio == IF historical_fail_info[2] > 0
                    THEN <<historical_fail_info[1], historical_fail_info[2]>>
                    ELSE <<0, 1>>
      weight == <<fail_ratio[2] - fail_ratio[1], fail_ratio[2]>>
  IN  IF tc.new_coverage THEN <<weight[1] + weight[2], weight[2]>> ELSE <<0, 1>>

(* --------------------------- TestCaseManager ---------------------------- *)
Codes == {"def execute_program(timeout): return run()"}

Put(m, k, v) == [x \in DOMAIN m \cup {k} |-> IF x = k THEN v ELSE m[x]]

Callers == 1..MaxCallers

\* a caller that is not inside create_new_testcase
Idle == [pc |-> "idle", src_id |-> NoneInt, testcase |-> NoneStr, read |-> NoneInt]

Init ==
  /\ test_cases = << >>
  /\ next_testcase_id = 0
  /\ queue = << >>
  /\ now = 0
  /\ tasks = {}
  /\ loads = << >>
  /\ calls = [t \in Callers |-> Idle]
  /\ TraceIdle
  /\ WriteIdle
  /\ RoundTripIdle
  /\ OtherIdle

\* add_initial_testcase that leaves next_testcase_id as it was
add_initial_testcase_KeepsCounter(exec_code, newly_covered_lines, save_immediately) ==
  /\ next_testcase_id < MaxCases
  /\ IF newly_covered_lines > 0
     THEN LET testcase == create_initial(next_testcase_id, exec_code)
          IN  /\ test_cases' = Put(test_cases, next_testcase_id, testcase)
              /\ queue' = save_to_disk(queue, testcase)
     ELSE UNCHANGED <<test_cases, queue>>
  /\ UNCHANGED <<next_testcase_id, now, tasks, loads, calls>>
  /\ UNCHANGED <<traceVars, writeVars, roundTripVars, otherVars>>

\* add_initial_testcase: create_initial asserts newly_covered_lines > 0 and
\* saves the seed; the seed enters the map under next_testcase_id and is saved
\* a second time when save_immediately is set
add_initial_testcase(exec_code, newly_covered_lines, save_immediately) ==
  /\ next_testcase_id < MaxCases
  /\ IF newly_covered_lines > 0
     THEN LET testcase == create_initial(next_testcase_id, exec_code)
              created == save_to_disk(queue, testcase)
          IN  /\ test_cases' = Put(test_cases, next_testcase_id, testcase)
              /\ next_testcase_id' = next_testcase_id + 1
              /\ queue' = IF save_immediately
                          THEN save_to_disk(created, testcase)
                          ELSE created
     ELSE UNCHANGED <<test_cases, next_testcase_id, queue>>
  /\ UNCHANGED <<now, tasks, loads, calls>>
  /\ UNCHANGED <<traceVars, writeVars, roundTripVars, otherVars>>

\* create_new_testcase: ValueError when the parent is not in the map; else the
\* child is built (and saved) by from_src, the parent's selected_cnt is raised,
\* the child enters the map under next_testcase_id; its solve+execute task
\* starts
create_new_testcase(src_id, save_immediately) ==
  /\ next_testcase_id < MaxCases
  /\ IF src_id \in DOMAIN test_cases
     THEN LET parent == test_cases[src_id]
              testcase == from_src_child(parent, next_testcase_id)
              created == save_to_disk(queue, testcase)
          IN  /\ test_cases' =
                   Put(Put(test_cases, src_id, from_src_parent(parent)),
                       next_testcase_id, testcase)
              /\ next_testcase_id' = next_testcase_id + 1
              /\ queue' = IF save_immediately
                          THEN save_to_disk(created, testcase)
                          ELSE created
              /\ tasks' = tasks \cup {next_testcase_id}
     ELSE UNCHANGED <<test_cases, next_testcase_id, queue, tasks>>
  /\ UNCHANGED <<now, loads, calls>>
  /\ UNCHANGED <<traceVars, writeVars, roundTripVars, otherVars>>

\* save_all_testcases: every case of the map is written to its file
RECURSIVE SaveAll(_, _, _)
SaveAll(q, m, ks) ==
  IF ks = {} THEN q
  ELSE LET k == CHOOSE x \in ks : TRUE
       IN  SaveAll(save_to_disk(q, m[k]), m, ks \ {k})

save_all_testcases ==
  /\ queue' = SaveAll(queue, test_cases, DOMAIN test_cases)
  /\ UNCHANGED <<test_cases, next_testcase_id, now, tasks, loads, calls>>
  /\ UNCHANGED <<traceVars, writeVars, roundTripVars, otherVars>>

\* load_from_file: the constructor runs on the file's fields, then time_taken
\* is set back to the file's value
load_from_file(data) ==
  SetAttr(SetAttr(data, "exec_code", data.exec_code), "time_taken", data.time_taken)

\* max_id of _load_testcases_from_dir
RECURSIVE MaxOf(_)
MaxOf(S) == IF S = {} THEN 0
            ELSE LET x == CHOOSE y \in S : TRUE IN Max(x, MaxOf(S \ {x}))

\* the directories load_testcases is pointed at: the manager's own out_dir, the
\* out_dir of an earlier run (it holds that run's seed), a directory that does
\* not exist
InDirs == {"out_dir", "resume_in", "missing"}

ResumeQueue == save_to_disk(<< >>, create_initial(0, CHOOSE c \in Codes : TRUE))

QueueOf(in_dir) == IF in_dir = "out_dir" THEN queue ELSE ResumeQueue

\* _load_testcases_from_dir: ({}, 0) for a missing directory; else one case per
\* id named by a file (the file listed last wins), and max_id + 1 with max_id
\* starting at 0
LoadedIds(q) == {f[1] : f \in DOMAIN q}

\* load_testcases: the map and the counter are replaced by what in_dir/queue
\* holds (the loaded cases will be saved under the manager's own out_dir);
\* tasks that ran on the replaced cases are gone
load_testcases(in_dir) ==
  /\ Len(loads) < MaxLoads
  /\ loads' = Append(loads, in_dir)
  /\ IF in_dir # "missing"
     THEN LET q == QueueOf(in_dir)
          IN  /\ \E pick \in [LoadedIds(q) -> DOMAIN q] :
                   /\ \A i \in LoadedIds(q) : pick[i][1] = i
                   /\ test_cases' = [i \in LoadedIds(q) |-> load_from_file(q[pick[i]])]
              /\ next_testcase_id' = MaxOf(LoadedIds(q)) + 1
     ELSE /\ test_cases' = << >>
          /\ next_testcase_id' = 0
  /\ tasks' = {}
  /\ UNCHANGED <<queue, now, calls>>
  /\ UNCHANGED <<traceVars, writeVars, roundTripVars, otherVars>>

(* ----------------------------- provide_solution ------------------------- *)
\* candidate programs: None, the empty text, a text without the entry point, a
\* text with the entry point that throws in the smoke run, and a good one
PythonExecutions ==
  { NoneStr, "", "print(1)", "def execute_program(timeout): raise" } \cup Codes

HasEntryPoint(p) == p \in {"def execute_program(timeout): raise"} \cup Codes

\* run_target(python_execution, timeout=2)["exec_success"]
SmokeRunSucceeds(p) == p \in Codes

\* the verdict as the model sent it: a boolean or something else
Verdicts == {"True", "False", "null"}

process_solution_NoSmokeRun(is_satisfiable, python_execution) ==
  IF is_satisfiable \notin {"True", "False"}
    THEN <<"Error: is_satisfiable is not a boolean.", TRUE, NoneStr>>
  ELSE IF is_satisfiable = "False"
    THEN <<"UNSATISFIABLE constraints acknowledged.", FALSE, NoneStr>>
  ELSE IF python_execution \in {NoneStr, ""}
    THEN <<"Error: Python execution function is required.", TRUE, NoneStr>>
  ELSE IF ~HasEntryPoint(python_execution)
    THEN <<"Error: Python execution must contain 'def execute_program'.", TRUE, NoneStr>>
  ELSE <<"Solution accepted.", TRUE, python_execution>>

\* process_solution: (observation, is_satisfiable, python_execution or None)
process_solution(is_satisfiable, python_execution) ==
  IF is_satisfiable \notin {"True", "False"}
    THEN <<"Error: is_satisfiable is not a boolean.", TRUE, NoneStr>>
  ELSE IF is_satisfiable = "False"
    THEN <<"UNSATISFIABLE constraints acknowledged.", FALSE, NoneStr>>
  ELSE IF python_execution \in {NoneStr, ""}
    THEN <<"Error: Python execution function is required.", TRUE, NoneStr>>
  ELSE IF ~HasEntryPoint(python_execution)
    THEN <<"Error: Python execution must contain 'def execute_program'.", TRUE, NoneStr>>
  ELSE IF ~SmokeRunSucceeds(python_execution)
    THEN <<"Running the given solution failed", TRUE, NoneStr>>
  ELSE <<"Solution accepted.", TRUE, python_execution>>

(* ------------------- the solve+execute task of one case ------------------ *)
\* what one run of the candidate reports
Outcomes ==
  { [covered |-> TRUE,  new_cov |-> TRUE,  crash |-> FALSE, hang |-> FALSE],
    [covered |-> TRUE,  new_cov |-> FALSE, crash |-> FALSE, hang |-> FALSE],
    [covered |-> FALSE, new_cov |-> TRUE,  crash |-> FALSE, hang |-> FALSE],
    [covered |-> FALSE, new_cov |-> FALSE, crash |-> TRUE,  hang |-> FALSE],
    [covered |-> FALSE, new_cov |-> FALSE, crash |-> FALSE, hang |-> TRUE],
    [covered |-> FALSE, new_cov |-> FALSE, crash |-> FALSE, hang |-> FALSE] }

Running(k) == k \in tasks /\ k \in DOMAIN test_cases

\* the case is finalized: FINISHED is appended and the file is written; a case
\* that completed successfully is counted on its parent
Succeeded(tc) == tc.is_target_covered \/ tc.new_coverage

CountOnParent(m, tc) ==
  IF Succeeded(tc) /\ tc.src_id \in DOMAIN m
  THEN [m EXCEPT ![tc.src_id] =
          SetAttr(@, "successful_generation_cnt", @.successful_generation_cnt + 1)]
  ELSE m

Finalize(k, tc) ==
  LET done == add_state(tc, FINISHED)
  IN  /\ test_cases' = CountOnParent([test_cases EXCEPT ![k] = done], done)
      /\ queue' = save_to_disk(queue, done)
      /\ tasks' = tasks \ {k}

\* the flags one run leaves on the case
Record(tc, o) ==
  SetAttr(SetAttr(SetAttr(SetAttr(tc,
    "is_target_covered", o.covered),
    "new_coverage", o.new_cov),
    "is_crash", o.crash),
    "is_hang", o.hang)

\* SUMMARIZE -> SOLVE after the path constraint is recorded
Summarized(k) ==
  /\ Running(k)
  /\ current_state(test_cases[k]) = SUMMARIZE
  /\ test_cases' = [test_cases EXCEPT ![k] = add_state(@, SOLVE)]
  /\ UNCHANGED <<next_testcase_id, queue, now, tasks, loads, calls>>
  /\ UNCHANGED <<traceVars, writeVars, roundTripVars, otherVars>>

\* SOLVE -> EXECUTE when provide_solution accepts, SOLVE -> FINISHED when the
\* constraint is unsatisfiable; an error observation makes the solver retry
Solved(k, verdict, python_execution) ==
  /\ Running(k)
  /\ current_state(test_cases[k]) = SOLVE
  /\ LET r == process_solution(verdict, python_execution)
         tc == test_cases[k]
     IN  IF r[2] /\ r[3] # NoneStr
           THEN /\ test_cases' =
                     [test_cases EXCEPT ![k] =
                        add_state(SetAttr(SetAttr(tc, "is_satisfiable", TRUE),
                                          "exec_code", r[3]), EXECUTE)]
                /\ UNCHANGED <<queue, tasks>>
         ELSE IF ~r[2]
           THEN Finalize(k, SetAttr(tc, "is_satisfiable", FALSE))
         ELSE UNCHANGED <<test_cases, queue, tasks>>
  /\ UNCHANGED <<next_testcase_id, now, loads, calls>>
  /\ UNCHANGED <<traceVars, writeVars, roundTripVars, otherVars>>

\* EXECUTE -> FINISHED on target covered, new coverage, crash or hang;
\* EXECUTE -> REVIEW_SOLVER otherwise
Executed(k, o) ==
  /\ Running(k)
  /\ current_state(test_cases[k]) = EXECUTE
  /\ LET tc == Record(test_cases[k], o)
     IN  IF o.covered \/ o.new_cov \/ o.crash \/ o.hang
         THEN Finalize(k, tc)
         ELSE /\ test_cases' = [test_cases EXCEPT ![k] = add_state(tc, REVIEW_SOLVER)]
              /\ UNCHANGED <<queue, tasks>>
  /\ UNCHANGED <<next_testcase_id, now, loads, calls>>
  /\ UNCHANGED <<traceVars, writeVars, roundTripVars, otherVars>>

\* REVIEW_SOLVER -> REVIEW_SOLVER_EXECUTE with the corrected program when the
\* review adjusts the solution, REVIEW_SOLVER -> REVIEW_SUMMARY otherwise
SolverReviewed(k, need_adjust, python_execution) ==
  /\ Running(k)
  /\ current_state(test_cases[k]) = REVIEW_SOLVER
  /\ test_cases' =
       [test_cases EXCEPT ![k] =
          IF need_adjust
          THEN add_state(SetAttr(@, "exec_code", python_execution), REVIEW_SOLVER_EXECUTE)
          ELSE add_state(@, REVIEW_SUMMARY)]
  /\ UNCHANGED <<next_testcase_id, queue, now, tasks, loads, calls>>
  /\ UNCHANGED <<traceVars, writeVars, roundTripVars, otherVars>>

\* REVIEW_SUMMARY -> REVIEW_SUMMARY_SOLVE with the corrected constraint
SummaryReviewed(k) ==
  /\ Running(k)
  /\ current_state(test_cases[k]) = REVIEW_SUMMARY
  /\ test_cases' = [test_cases EXCEPT ![k] = add_state(@, REVIEW_SUMMARY_SOLVE)]
  /\ UNCHANGED <<next_testcase_id, queue, now, tasks, loads, calls>>
  /\ UNCHANGED <<traceVars, writeVars, roundTripVars, otherVars>>

\* REVIEW_SUMMARY_SOLVE -> REVIEW_SUMMARY_EXECUTE when provide_solution accepts
ReviewSolved(k, verdict, python_execution) ==
  /\ Running(k)
  /\ current_state(test_cases[k]) = REVIEW_SUMMARY_SOLVE
  /\ LET r == process_solution(verdict, python_execution)
     IN  /\ r[2] /\ r[3] # NoneStr
         /\ test_cases' =
              [test_cases EXCEPT ![k] =
                 add_state(SetAttr(@, "exec_code", r[3]), REVIEW_SUMMARY_EXECUTE)]
  /\ UNCHANGED <<next_testcase_id, queue, now, tasks, loads, calls>>
  /\ UNCHANGED <<traceVars, writeVars, roundTripVars, otherVars>>

\* REVIEW_SOLVER_EXECUTE -> FINISHED and REVIEW_SUMMARY_EXECUTE -> FINISHED on
\* any outcome
ReviewExecuted(k, o) ==
  /\ Running(k)
  /\ current_state(test_cases[k]) \in {REVIEW_SOLVER_EXECUTE, REVIEW_SUMMARY_EXECUTE}
  /\ Finalize(k, Record(test_cases[k], o))
  /\ UNCHANGED <<next_testcase_id, now, loads, calls>>
  /\ UNCHANGED <<traceVars, writeVars, roundTripVars, otherVars>>

Ids == 0..(MaxCases - 1)

Tick ==
  /\ now < MaxTime
  /\ now' = now + 1
  /\ UNCHANGED <<test_cases, next_testcase_id, queue, tasks, loads, calls>>
  /\ UNCHANGED <<traceVars, writeVars, roundTripVars, otherVars>>

\* one run of the engine: seeds are added, children are created and driven
\* through their state machine while the clock advances
Next ==
  \/ \E c \in Codes, n \in 0..1, s \in BOOLEAN : add_initial_testcase(c, n, s)
  \/ \E p \in Ids, s \in BOOLEAN : create_new_testcase(p, s)
  \/ save_all_testcases
  \/ \E k \in Ids : Summarized(k)
  \/ \E k \in Ids, v \in Verdicts, p \in PythonExecutions : Solved(k, v, p)
  \/ \E k \in Ids, o \in Outcomes : Executed(k, o)
  \/ \E k \in Ids, a \in BOOLEAN, p \in Codes : SolverReviewed(k, a, p)
  \/ \E k \in Ids : SummaryReviewed(k)
  \/ \E k \in Ids, v \in Verdicts, p \in PythonExecutions : ReviewSolved(k, v, p)
  \/ \E k \in Ids, o \in Outcomes : ReviewExecuted(k, o)
  \/ Tick

Spec == Init /\ [][Next]_vars

\* the corpus manager alone, over runs that also reload the corpus from disk
NextCorpus ==
  \/ \E c \in Codes, n \in 0..1, s \in BOOLEAN : add_initial_testcase(c, n, s)
  \/ \E p \in Ids, s \in BOOLEAN : create_new_testcase(p, s)
  \/ \E d \in InDirs : load_testcases(d)
  \/ save_all_testcases
  \/ Tick

SpecCorpus == Init /\ [][NextCorpus]_vars

(* ------------- create_new_testcase called by parallel tasks -------------- *)
\* The method takes no lock: between two of its statements another task may
\* run. Each action below is one statement of the method (the += statements
\* are a read and a write).

\* the corpus after the first seed was added
InitParallel ==
  LET seed == create_initial(0, CHOOSE c \in Codes : TRUE)
  IN  /\ test_cases = Put(<< >>, 0, seed)
      /\ next_testcase_id = 1
      /\ queue = save_to_disk(<< >>, seed)
      /\ now = 0
      /\ tasks = {}
      /\ loads = << >>
      /\ calls = [t \in Callers |-> Idle]
      /\ TraceIdle
      /\ WriteIdle
      /\ RoundTripIdle
      /\ OtherIdle

\* parent = self.test_cases.get(src_id); ValueError when it is missing
CallLookup(t, src_id) ==
  /\ calls[t].pc = "idle"
  /\ calls' = [calls EXCEPT ![t] =
                 IF src_id \in DOMAIN test_cases
                 THEN [Idle EXCEPT !.pc = "from_src", !.src_id = src_id]
                 ELSE [Idle EXCEPT !.pc = "raised"]]
  /\ UNCHANGED <<test_cases, next_testcase_id, queue, now, tasks, loads>>
  /\ UNCHANGED <<traceVars, writeVars, roundTripVars, otherVars>>

\* testcase = TestCase.from_src(parent, self.next_testcase_id), up to the
\* save of the child
CallFromSrc(t) ==
  /\ calls[t].pc = "from_src"
  /\ LET testcase == from_src_child(test_cases[calls[t].src_id], next_testcase_id)
     IN  /\ queue' = save_to_disk(queue, testcase)
         /\ calls' = [calls EXCEPT ![t].pc = "selected_read", ![t].testcase = testcase]
  /\ UNCHANGED <<test_cases, next_testcase_id, now, tasks, loads>>
  /\ UNCHANGED <<traceVars, writeVars, roundTripVars, otherVars>>

\* src_tc.selected_cnt += 1: the read
CallSelectedRead(t) ==
  /\ calls[t].pc = "selected_read"
  /\ calls' = [calls EXCEPT ![t].pc = "selected_write",
                            ![t].read = test_cases[calls[t].src_id].selected_cnt]
  /\ UNCHANGED <<test_cases, next_testcase_id, queue, now, tasks, loads>>
  /\ UNCHANGED <<traceVars, writeVars, roundTripVars, otherVars>>

\* src_tc.selected_cnt += 1: the write
CallSelectedWrite(t) ==
  /\ calls[t].pc = "selected_write"
  /\ test_cases' = [test_cases EXCEPT ![calls[t].src_id] =
                      SetAttr(@, "selected_cnt", calls[t].read + 1)]
  /\ calls' = [calls EXCEPT ![t].pc = "insert"]
  /\ UNCHANGED <<next_testcase_id, queue, now, tasks, loads>>
  /\ UNCHANGED <<traceVars, writeVars, roundTripVars, otherVars>>

\* self.test_cases[self.next_testcase_id] = testcase
CallInsert(t) ==
  /\ calls[t].pc = "insert"
  /\ test_cases' = Put(test_cases, next_testcase_id, calls[t].testcase)
  /\ calls' = [calls EXCEPT ![t].pc = "next_read"]
  /\ UNCHANGED <<next_testcase_id, queue, now, tasks, loads>>
  /\ UNCHANGED <<traceVars, writeVars, roundTripVars, otherVars>>

\* self.next_testcase_id += 1: the read
CallNextRead(t) ==
  /\ calls[t].pc = "next_read"
  /\ calls' = [calls EXCEPT ![t].pc = "next_write", ![t].read = next_testcase_id]
  /\ UNCHANGED <<test_cases, next_testcase_id, queue, now, tasks, loads>>
  /\ UNCHANGED <<traceVars, writeVars, roundTripVars, otherVars>>

\* self.next_testcase_id += 1: the write
CallNextWrite(t) ==
  /\ calls[t].pc = "next_write"
  /\ next_testcase_id' = calls[t].read + 1
  /\ calls' = [calls EXCEPT ![t].pc = "save"]
  /\ UNCHANGED <<test_cases, queue, now, tasks, loads>>
  /\ UNCHANGED <<traceVars, writeVars, roundTripVars, otherVars>>

\* if save_immediately: testcase.save_to_disk(); return testcase
CallSave(t, save_immediately) ==
  /\ calls[t].pc = "save"
  /\ queue' = IF save_immediately THEN save_to_disk(queue, calls[t].testcase) ELSE queue
  /\ calls' = [calls EXCEPT ![t].pc = "returned"]
  /\ UNCHANGED <<test_cases, next_testcase_id, now, tasks, loads>>
  /\ UNCHANGED <<traceVars, writeVars, roundTripVars, otherVars>>

NextParallel ==
  \/ \E t \in Callers, p \in Ids : CallLookup(t, p)
  \/ \E t \in Callers : CallFromSrc(t)
  \/ \E t \in Callers : CallSelectedRead(t)
  \/ \E t \in Callers : CallSelectedWrite(t)
  \/ \E t \in Callers : CallInsert(t)
  \/ \E t \in Callers : CallNextRead(t)
  \/ \E t \in Callers : CallNextWrite(t)
  \/ \E t \in Callers, s \in BOOLEAN : CallSave(t, s)

SpecParallel == InitParallel /\ [][NextParallel]_vars

(* ============== the trace collector (app/agents/trace.py) ================ *)
\* the instrumented files that are enumerated line by line have at most
\* MaxLines lines
MaxLines == 2
\* at most MaxIngests calls are made on the coverage registry
MaxIngests == 2

GLOBAL_BLOCK == <<"Global", 0>>
INSTRUMENT_BLOCK == <<"Instrumentation", 0>>

\* re.match found nothing
NoMatch == << >>

\* re.match(TRACE_PATTERN, line.strip()).groups() with TRACE_PATTERN =
\* .*?(enter|exit)\s+([^\s]+)\s+(\d+).*? : the first marker of the line, with
\* whatever text around it
TraceMatch(line) ==
  CASE line = "enter f 1" -> <<"enter", "f", 1>>
    [] line = "exit f 1" -> <<"exit", "f", 1>>
    [] line = "enter f 2" -> <<"enter", "f", 2>>
    [] line = "exit f 2" -> <<"exit", "f", 2>>
    [] line = "[t.c] enter f 1" -> <<"enter", "f", 1>>
    [] line = "[t.c] enter f 1 [t.c] enter f 2" -> <<"enter", "f", 1>>
    [] line = "[t.c] enter g 9" -> <<"enter", "g", 9>>
    [] OTHER -> NoMatch

\* line.strip() is empty
IsBlank(line) == line \in {"", "  "}

\* the last lines of an instrumented file that carry the instrumentation cost
IsCostComment(line) == line = "// Total cost: 0.012345"

\* delete_instrumentation_comments: trailing blank lines go, then trailing
\* cost comments
RECURSIVE DropBlankTail(_)
DropBlankTail(lines) ==
  IF lines # << >> /\ IsBlank(Last(lines))
  THEN DropBlankTail(SubSeq(lines, 1, Len(lines) - 1))
  ELSE lines

RECURSIVE DropCostTail(_)
DropCostTail(lines) ==
  IF lines # << >> /\ IsCostComment(Last(lines))
  THEN DropCostTail(SubSeq(lines, 1, Len(lines) - 1))
  ELSE lines

delete_instrumentation_comments(source_code) == DropCostTail(DropBlankTail(source_code))

\* dict.get(key, 0)
Get(m, k) == IF k \in DOMAIN m THEN m[k] ELSE 0

\* the while loops of the exit branch: the start moves forward and the end
\* moves backward over instrumentation lines; -1 stands for the IndexError of
\* line2blocks[n][-1] on a line recorded with an empty block stack
RECURSIVE SkipForward(_, _, _, _)
SkipForward(line2blocks, size, new_start, new_end) ==
  IF new_start < size /\ new_start < new_end
  THEN IF line2blocks[new_start] = << >> THEN -1
       ELSE IF Last(line2blocks[new_start]) = INSTRUMENT_BLOCK
            THEN SkipForward(line2blocks, size, new_start + 1, new_end)
            ELSE new_start
  ELSE new_start

RECURSIVE SkipBackward(_, _, _)
SkipBackward(line2blocks, new_start, new_end) ==
  IF new_end > 1 /\ new_start < new_end
  THEN IF line2blocks[new_end] = << >> THEN -1
       ELSE IF Last(line2blocks[new_end]) = INSTRUMENT_BLOCK
            THEN SkipBackward(line2blocks, new_start, new_end - 1)
            ELSE new_end
  ELSE new_end

\* the collector before the first line is parsed
Unparsed(line2code) ==
  [ line2code |-> line2code,
    size |-> Len(line2code),
    block_id_stack |-> <<GLOBAL_BLOCK>>,
    instrumentation_cnt |-> 0,
    line2blocks |-> << >>,
    block2lines |-> << >>,
    block2real_lines |-> << >>,
    real_line2line |-> << >>,
    block_order |-> << >>,
    block2cov |-> << >>,
    reported |-> 0,
    raised |-> NoneStr ]

Raise(tc, exception) == [tc EXCEPT !.raised = exception]

\* one round of the loop of _parse_source_code_to_blocks, on line i
ParseLine(tc, i) ==
  LET match == TraceMatch(tc.line2code[i])
  IN
  IF tc.raised # NoneStr THEN tc
  ELSE IF match = NoMatch
    THEN [tc EXCEPT !.real_line2line = Put(@, i - tc.instrumentation_cnt, i),
                    !.line2blocks = Append(@, tc.block_id_stack)]
  ELSE
    LET cnt == tc.instrumentation_cnt + 1
        block_id == <<match[2], match[3]>>
        marked == [tc EXCEPT !.instrumentation_cnt = cnt,
                             !.line2blocks = Append(@, <<INSTRUMENT_BLOCK>>)]
    IN
    IF match[1] = "enter"
      THEN [marked EXCEPT
              !.block_id_stack = Append(@, block_id),
              !.block2lines = Put(@, block_id, <<i + 1, i + 1>>),
              !.block2real_lines = Put(@, block_id, <<i + 1 - cnt, i + 1 - cnt>>),
              !.block_order = IF block_id \in DOMAIN tc.block2lines
                              THEN @ ELSE Append(@, block_id)]
    ELSE IF tc.block_id_stack = << >>
      THEN Raise(marked, "IndexError")
    ELSE
      LET last_block_id == Last(tc.block_id_stack)
          popped == [marked EXCEPT
                       !.block_id_stack = SubSeq(@, 1, Len(@) - 1),
                       !.reported = @ + (IF last_block_id # block_id THEN 1 ELSE 0)]
      IN
      IF block_id \notin DOMAIN tc.block2lines
        THEN Raise(popped, "KeyError")
      ELSE
        LET start == tc.block2lines[block_id][1]
            end == i - 1
            real_end == end - (cnt - 1)
            new_start == SkipForward(marked.line2blocks, tc.size, start, end)
            new_end == IF new_start = -1 THEN -1
                       ELSE SkipBackward(marked.line2blocks, new_start, end)
        IN
        IF new_start = -1 \/ new_end = -1
          THEN Raise(popped, "IndexError")
        ELSE [popped EXCEPT
                !.block2lines = Put(@, block_id, <<new_start, new_end>>),
                !.block2real_lines =
                   Put(@, block_id, <<tc.block2real_lines[block_id][1], real_end>>),
                !.reported = @ + (IF new_end < new_start THEN 1 ELSE 0)]

\* _parse_source_code_to_blocks: the lines 1 .. size in order
RECURSIVE ParseFrom(_, _)
ParseFrom(tc, i) ==
  IF i > tc.size THEN tc ELSE ParseFrom(ParseLine(tc, i), i + 1)

_parse_source_code_to_blocks(tc) == ParseFrom(tc, 1)

\* the check that lets every block through
CheckBlock_Skipped(tc, block) == NoneStr

\* the check at the end of __init__, on one block:
\*   assert line_start == self.real_line2line[real_line_start]
\*   assert line_end == self.real_line2line[real_line_end]
CheckBlock(tc, block) ==
  LET real == tc.block2real_lines[block]
      lines == tc.block2lines[block]
  IN  IF real[1] \notin DOMAIN tc.real_line2line THEN "KeyError"
      ELSE IF lines[1] # tc.real_line2line[real[1]] THEN "AssertionError"
      ELSE IF real[2] \notin DOMAIN tc.real_line2line THEN "KeyError"
      ELSE IF lines[2] # tc.real_line2line[real[2]] THEN "AssertionError"
      ELSE NoneStr

\* the check over the blocks in the order of the dict: the first failure is
\* the exception of the constructor
RECURSIVE CheckMapping(_, _)
CheckMapping(tc, k) ==
  IF k > Len(tc.block_order) THEN NoneStr
  ELSE LET failure == CheckBlock(tc, tc.block_order[k])
       IN  IF failure # NoneStr THEN failure ELSE CheckMapping(tc, k + 1)

\* TraceCollector(file_path): the file is read, its tail is cleaned, the lines
\* are parsed into blocks and the mapping is checked; `raised` names the
\* exception that ended the constructor, if any
TraceCollector(source_code) ==
  LET parsed == _parse_source_code_to_blocks(
                  Unparsed(delete_instrumentation_comments(source_code)))
  IN  IF parsed.raised # NoneStr THEN parsed
      ELSE Raise(parsed, CheckMapping(parsed, 1))

\* get_line_covered_times(line_no), on the hit counts cov
get_line_covered_times(tc, cov, line_no) == Get(cov, Last(tc.line2blocks[line_no]))

\* get_executed_blocks that counts a block once per marker of the trace
RECURSIVE get_executed_blocks_PerMarker(_)
get_executed_blocks_PerMarker(trace_str) ==
  IF trace_str = << >> THEN <<GLOBAL_BLOCK>>
  ELSE LET match == TraceMatch(trace_str[1])
           rest == get_executed_blocks_PerMarker(SubSeq(trace_str, 2, Len(trace_str)))
       IN  IF match = NoMatch THEN rest ELSE <<<<match[2], match[3]>>>> \o rest

\* get_executed_blocks: Global and the block of every line of the trace that
\* matches the pattern; trace_str is the text split at its line breaks
get_executed_blocks(trace_str) ==
  {GLOBAL_BLOCK} \cup
  { <<TraceMatch(trace_str[i])[2], TraceMatch(trace_str[i])[3]>> :
      i \in {j \in 1..Len(trace_str) : TraceMatch(trace_str[j]) # NoMatch} }

\* the orders in which a for loop may visit a set
Orders(S) ==
  { o \in [1..Cardinality(S) -> S] : \A i, j \in 1..Cardinality(S) : o[i] = o[j] => i = j }

\* a loop that visits a block once for every marker of the trace
VisitOrders_PerMarker(trace_str) == {get_executed_blocks_PerMarker(trace_str)}

\* for block in executed_blocks: the set is visited in some order, each block
\* once
VisitOrders(trace_str) == Orders(get_executed_blocks(trace_str))

\* the lines counted for a newly covered block, without the test on the
\* innermost block
NewLinesOf_WholeRange(tc, block) ==
  { real_line \in tc.block2real_lines[block][1]..tc.block2real_lines[block][2] :
      ~IsBlank(tc.line2code[tc.real_line2line[real_line]]) }

\* the real lines the loop of collect_trace counts for a newly covered block:
\* non-empty lines of its real range whose innermost block it is
NewLinesOf(tc, block) ==
  { real_line \in tc.block2real_lines[block][1]..tc.block2real_lines[block][2] :
      /\ ~IsBlank(tc.line2code[tc.real_line2line[real_line]])
      /\ Last(tc.line2blocks[tc.real_line2line[real_line]]) = block }

\* the exception the look-ups of that loop end with, if any, from real_line
\* on: real_line2line[real_line] (KeyError), line2blocks[...][-1] (IndexError)
RECURSIVE NewLinesRaise(_, _, _)
NewLinesRaise(tc, real_line, last_line) ==
  IF real_line > last_line THEN NoneStr
  ELSE IF real_line \notin DOMAIN tc.real_line2line THEN "KeyError"
  ELSE IF /\ ~IsBlank(tc.line2code[tc.real_line2line[real_line]])
          /\ tc.line2blocks[tc.real_line2line[real_line]] = << >>
    THEN "IndexError"
  ELSE NewLinesRaise(tc, real_line + 1, last_line)

\* the accounting loop of collect_trace over the executed blocks in the order
\* `blocks`, from position k; acc = (block2cov, new_covered_lines,
\* GLOBAL_BLOCK_first_covered, exception)
RECURSIVE Account(_, _, _, _)
Account(tc, blocks, k, acc) ==
  IF k > Len(blocks) \/ acc.raised # NoneStr THEN acc
  ELSE
    LET block == blocks[k]
        prev_cov == Get(acc.block2cov, block)
        counted == [acc EXCEPT !.block2cov = Put(@, block, prev_cov + 1)]
    IN
    IF block = GLOBAL_BLOCK
      THEN Account(tc, blocks, k + 1, [counted EXCEPT !.global_first = (prev_cov = 0)])
    ELSE IF prev_cov # 0
      THEN Account(tc, blocks, k + 1, counted)
    ELSE IF block \notin DOMAIN tc.block2real_lines
      THEN [counted EXCEPT !.raised = "KeyError"]
    ELSE IF NewLinesRaise(tc, tc.block2real_lines[block][1],
                          tc.block2real_lines[block][2]) # NoneStr
      THEN [counted EXCEPT !.raised =
              NewLinesRaise(tc, tc.block2real_lines[block][1], tc.block2real_lines[block][2])]
    ELSE Account(tc, blocks, k + 1,
           [counted EXCEPT !.new_covered_lines = @ + Cardinality(NewLinesOf(tc, block))])

\* the lines of [start, end] the summary counts for an unexecuted block
SummaryLines(tc, block) ==
  { line \in (tc.block2lines[block][1]..tc.block2lines[block][2]) \cap (1..tc.size) :
      ~IsBlank(tc.line2code[line]) /\ TraceMatch(tc.line2code[line]) = NoMatch }

\* the exception the summary loop of collect_trace ends with (None when it
\* completes), walking the lines from line_no with the blocks visited so far
RECURSIVE SummaryRaises(_, _, _, _)
SummaryRaises(tc, executed_blocks, line_no, visited_block) ==
  IF line_no > tc.size THEN NoneStr
  ELSE
    LET blocks == tc.line2blocks[line_no]
    IN
    IF blocks = << >> THEN "IndexError"
    ELSE IF Last(blocks) \in {INSTRUMENT_BLOCK, GLOBAL_BLOCK} \/ Last(blocks) \in visited_block
      THEN SummaryRaises(tc, executed_blocks, line_no + 1, visited_block)
    ELSE
      LET leaf == Last(blocks)
          skip_block == \E k \in 1..(Len(blocks) - 1) : blocks[k] \notin executed_blocks
      IN
      IF ~skip_block /\ leaf \notin executed_blocks
           /\ \E line \in tc.block2lines[leaf][1]..tc.block2lines[leaf][2] :
                line \notin 1..tc.size
        THEN "KeyError"
      ELSE IF ~skip_block /\ leaf \notin executed_blocks
           /\ \E line \in SummaryLines(tc, leaf) : tc.line2blocks[line] = << >>
        THEN "IndexError"
      ELSE IF ~skip_block /\ leaf \notin executed_blocks /\ SummaryLines(tc, leaf) = {}
        THEN "ZeroDivisionError"
      ELSE SummaryRaises(tc, executed_blocks, line_no + 1, visited_block \cup {leaf})

\* the first target line whose look-up raises: real_line2line[line] (KeyError),
\* then line2blocks[...][-1] (IndexError)
RECURSIVE TargetRaises(_, _, _)
TargetRaises(tc, line, last_line) ==
  IF line > last_line THEN NoneStr
  ELSE IF line \notin DOMAIN tc.real_line2line THEN "KeyError"
  ELSE IF tc.line2blocks[tc.real_line2line[line]] = << >> THEN "IndexError"
  ELSE TargetRaises(tc, line + 1, last_line)

\* the comparison that also takes an unchanged hit count for covered
TargetCovered_NotStrict(tc, prev, cov, target_lines) ==
  \E line \in target_lines[1]..target_lines[2] :
    get_line_covered_times(tc, cov, tc.real_line2line[line])
      >= get_line_covered_times(tc, prev, tc.real_line2line[line])

\* any target line whose hit count is greater after than before
TargetCovered(tc, prev, cov, target_lines) ==
  \E line \in target_lines[1]..target_lines[2] :
    get_line_covered_times(tc, cov, tc.real_line2line[line])
      > get_line_covered_times(tc, prev, tc.real_line2line[line])

\* TraceCollector.collect_trace on the collector tc, visiting the executed
\* blocks in the order `blocks`: the hit counts after the call, the exception
\* that ended it (None when it returned) and the two values it returned
TraceCollector_collect_trace(tc, trace_str, blocks, target_lines, add_coverage) ==
  LET executed_blocks == get_executed_blocks(trace_str)
      start == [ block2cov |-> tc.block2cov, new_covered_lines |-> 0,
                 global_first |-> FALSE, raised |-> NoneStr ]
      before == IF target_lines = NoTarget THEN NoneStr
                ELSE TargetRaises(tc, target_lines[1], target_lines[2])
      acc == IF add_coverage THEN Account(tc, blocks, 1, start) ELSE start
      asserted == IF acc.raised = NoneStr /\ acc.global_first /\ acc.new_covered_lines = 0
                  THEN "AssertionError" ELSE acc.raised
      summary == IF asserted # NoneStr THEN asserted
                 ELSE SummaryRaises(tc, executed_blocks, 1, {})
  IN  IF before # NoneStr
      THEN [ block2cov |-> tc.block2cov, raised |-> before, accounted |-> FALSE,
             new_covered_lines |-> 0, is_target_lines_covered |-> FALSE ]
      ELSE [ block2cov |-> acc.block2cov,
             raised |-> summary,
             accounted |-> add_coverage /\ acc.raised = NoneStr,
             new_covered_lines |-> IF summary = NoneStr THEN acc.new_covered_lines ELSE 0,
             is_target_lines_covered |->
               IF summary # NoneStr THEN FALSE
               ELSE IF target_lines = NoTarget THEN TRUE
               ELSE TargetCovered(tc, tc.block2cov, acc.block2cov, target_lines) ]

(* ------------- the coverage registry (app/agents/coverage.py) ------------ *)
\* the lines an instrumented file is made of
SourceLines == {"enter f 1", "exit f 1", "enter f 2", "exit f 2", "x = 1;", ""}

RECURSIVE FilesOfLength(_)
FilesOfLength(n) ==
  IF n = 0 THEN {<< >>}
  ELSE {Append(f, l) : f \in FilesOfLength(n - 1), l \in SourceLines}

\* files with a block inside a block, with code of the file's own, with the
\* cost comment the instrumenter leaves at the end, with a block closed twice
NestedFiles ==
  { <<"x = 1;", "enter f 1", "x = 1;", "enter f 2", "x = 1;", "exit f 2", "exit f 1">>,
    <<"enter f 1", "enter f 2", "x = 1;", "exit f 2", "x = 1;", "exit f 1",
      "// Total cost: 0.012345", "">>,
    <<"enter f 1", "x = 1;", "exit f 1", "enter f 1", "x = 1;", "exit f 1">>,
    <<"enter f 1", "x = 1;", "exit f 1", "exit f 1", "x = 1;">> }

SourceFiles == UNION {FilesOfLength(n) : n \in 0..MaxLines} \cup NestedFiles

\* the traces a run of the target prints
Traces ==
  { << >>,
    <<"enter f 1", "enter f 2", "exit f 2">>,
    <<"[t.c] enter f 1", "[t.c] enter f 1", "segmentation fault">>,
    <<"enter f 2", "exit f 2">>,
    <<"[t.c] enter f 1 [t.c] enter f 2">>,
    <<"[t.c] enter g 9", "enter f 1">> }

\* the target line ranges a caller asks about
TargetLines == {NoTarget, <<1, 1>>, <<2, 3>>}

InitTrace ==
  /\ source \in SourceFiles
  /\ file2cov = NoCollector
  /\ ingest = NoCall
  /\ ingesting = << >>
  /\ CorpusIdle
  /\ WriteIdle
  /\ RoundTripIdle
  /\ OtherIdle

\* what a call that ended before collect_trace was reached leaves in `ingest`;
\* `accounted` says that the accounting loop ran to its end, `again` that the
\* call before was an accounted ingestion of the same trace
Called(op, trace_str, target_lines, add_coverage, status) ==
  [ n |-> ingest.n + 1, op |-> op, trace |-> trace_str, target_lines |-> target_lines,
    add_coverage |-> add_coverage, status |-> status, new_covered_lines |-> 0,
    is_target_lines_covered |-> FALSE, accounted |-> FALSE, again |-> FALSE ]

\* get_file_coverage: the collector of the file is built on first mention; an
\* exception of the constructor leaves the registry without an entry
get_file_coverage ==
  /\ ingest.n < MaxIngests
  /\ LET tc == IF file2cov = NoCollector THEN TraceCollector(source) ELSE file2cov
     IN  /\ file2cov' = IF tc.raised = NoneStr THEN tc ELSE file2cov
         /\ ingest' = Called("get_file_coverage", << >>, NoTarget, FALSE,
                             IF tc.raised = NoneStr THEN "returned" ELSE tc.raised)
  /\ UNCHANGED <<source, ingesting>>
  /\ UNCHANGED <<corpusVars, writeVars, roundTripVars, otherVars>>

\* Coverage.collect_trace: the assertion on the arguments, the (lazy)
\* collector, then TraceCollector.collect_trace
collect_trace(trace_str, target_lines, add_coverage) ==
  /\ ingest.n < MaxIngests
  /\ IF target_lines # NoTarget /\ ~add_coverage
     THEN /\ ingest' = Called("collect_trace", trace_str, target_lines, add_coverage,
                              "AssertionError")
          /\ UNCHANGED file2cov
     ELSE LET tc == IF file2cov = NoCollector THEN TraceCollector(source) ELSE file2cov
          IN  IF tc.raised # NoneStr
              THEN /\ ingest' = Called("collect_trace", trace_str, target_lines,
                                       add_coverage, tc.raised)
                   /\ UNCHANGED file2cov
              ELSE \E blocks \in VisitOrders(trace_str) :
                     LET r == TraceCollector_collect_trace(tc, trace_str, blocks,
                                                           target_lines, add_coverage)
                     IN  /\ file2cov' = [tc EXCEPT !.block2cov = r.block2cov]
                         /\ ingest' =
                              [ n |-> ingest.n + 1, op |-> "collect_trace",
                                trace |-> trace_str, target_lines |-> target_lines,
                                add_coverage |-> add_coverage,
                                status |-> IF r.raised = NoneStr THEN "returned" ELSE r.raised,
                                new_covered_lines |-> r.new_covered_lines,
                                is_target_lines_covered |-> r.is_target_lines_covered,
                                accounted |-> r.accounted,
                                again |-> /\ ingest.op = "collect_trace"
                                          /\ ingest.accounted
                                          /\ ingest.trace = trace_str ]
  /\ UNCHANGED <<source, ingesting>>
  /\ UNCHANGED <<corpusVars, writeVars, roundTripVars, otherVars>>

NextTrace ==
  \/ get_file_coverage
  \/ \E t \in Traces, l \in TargetLines, a \in BOOLEAN : collect_trace(t, l, a)

SpecTrace == InitTrace /\ [][NextTrace]_vars

(* ---------------- collect_trace called by parallel tasks ----------------- *)
\* Coverage.collect_trace and TraceCollector.collect_trace take no lock:
\* between two statements of one call another task may run. Each action below
\* is one statement of TraceCollector.collect_trace with add_coverage set.

\* the file the tasks' targets run through
SharedSource == <<"x = 1;", "enter f 1", "x = 1;", "exit f 1">>

\* the traces and the target lines of the tasks
SharedTraces == { <<"[t.c] enter f 1", "exit f 1">>, <<"segmentation fault">> }

SharedTargets == {NoTarget, <<2, 2>>}

\* a task that is not inside collect_trace
NotIngesting ==
  [ pc |-> "idle", trace |-> << >>, target_lines |-> NoTarget, blocks |-> << >>,
    k |-> 0, prev_cov |-> 0, target_lines_prev_cov |-> << >>, global_first |-> FALSE,
    new_covered_lines |-> 0, is_target_lines_covered |-> FALSE ]

\* the registry holds the collector of the file; no trace was ingested yet
InitIngestParallel ==
  /\ source = SharedSource
  /\ file2cov = TraceCollector(SharedSource)
  /\ ingest = NoCall
  /\ ingesting = [t \in Callers |-> NotIngesting]
  /\ CorpusIdle
  /\ WriteIdle
  /\ RoundTripIdle
  /\ OtherIdle

\* the hit counts of the target lines, in line order
TargetCov(tc, target_lines) ==
  IF target_lines = NoTarget THEN << >>
  ELSE [ i \in 1..(target_lines[2] - target_lines[1] + 1) |->
           get_line_covered_times(tc, tc.block2cov, tc.real_line2line[target_lines[1] + i - 1]) ]

\* target_lines_prev_cov = [...]; executed_blocks = get_executed_blocks(trace_str)
IngestEnter(t, trace_str, target_lines) ==
  /\ ingesting[t].pc = "idle"
  /\ \E blocks \in VisitOrders(trace_str) :
       ingesting' = [ingesting EXCEPT ![t] =
                       [NotIngesting EXCEPT
                          !.pc = "read", !.trace = trace_str, !.target_lines = target_lines,
                          !.blocks = blocks, !.k = 1,
                          !.target_lines_prev_cov = TargetCov(file2cov, target_lines)]]
  /\ UNCHANGED <<source, file2cov, ingest>>
  /\ UNCHANGED <<corpusVars, writeVars, roundTripVars, otherVars>>

\* prev_cov = self.block2cov.get(block, 0)
IngestRead(t) ==
  /\ ingesting[t].pc = "read"
  /\ ingesting[t].k <= Len(ingesting[t].blocks)
  /\ ingesting' = [ingesting EXCEPT
                     ![t].pc = "write",
                     ![t].prev_cov = Get(file2cov.block2cov, ingesting[t].blocks[ingesting[t].k])]
  /\ UNCHANGED <<source, file2cov, ingest>>
  /\ UNCHANGED <<corpusVars, writeVars, roundTripVars, otherVars>>

\* self.block2cov[block] = prev_cov + 1, and the rest of the loop body, which
\* touches nothing shared
IngestWrite(t) ==
  /\ ingesting[t].pc = "write"
  /\ LET me == ingesting[t]
         block == me.blocks[me.k]
     IN  /\ file2cov' = [file2cov EXCEPT !.block2cov = Put(@, block, me.prev_cov + 1)]
         /\ ingesting' = [ingesting EXCEPT
              ![t].pc = "read",
              ![t].k = me.k + 1,
              ![t].global_first = IF block = GLOBAL_BLOCK THEN me.prev_cov = 0 ELSE @,
              ![t].new_covered_lines =
                 IF block # GLOBAL_BLOCK /\ me.prev_cov = 0
                 THEN @ + Cardinality(NewLinesOf(file2cov, block)) ELSE @]
  /\ UNCHANGED <<source, ingest>>
  /\ UNCHANGED <<corpusVars, writeVars, roundTripVars, otherVars>>

\* after the loop: the assertion on the first coverage of the file, the
\* summary, target_lines_cov and the comparison; the call returns or raises
IngestLeave(t) ==
  /\ ingesting[t].pc = "read"
  /\ ingesting[t].k > Len(ingesting[t].blocks)
  /\ LET me == ingesting[t]
         target_lines_cov == TargetCov(file2cov, me.target_lines)
     IN  ingesting' = [ingesting EXCEPT
           ![t].pc = IF me.global_first /\ me.new_covered_lines = 0
                     THEN "AssertionError" ELSE "returned",
           ![t].is_target_lines_covered =
              IF me.target_lines = NoTarget THEN TRUE
              ELSE \E i \in 1..Len(target_lines_cov) :
                     target_lines_cov[i] > me.target_lines_prev_cov[i]]
  /\ UNCHANGED <<source, file2cov, ingest>>
  /\ UNCHANGED <<corpusVars, writeVars, roundTripVars, otherVars>>

NextIngestParallel ==
  \/ \E t \in Callers, s \in SharedTraces, l \in SharedTargets : IngestEnter(t, s, l)
  \/ \E t \in Callers : IngestRead(t)
  \/ \E t \in Callers : IngestWrite(t)
  \/ \E t \in Callers : IngestLeave(t)

SpecIngestParallel == InitIngestParallel /\ [][NextIngestParallel]_vars

(* --------------------- TestCase.write_to_yaml_file ----------------------- *)
\* One case file and the calls of write_to_yaml_file on it. A call is modelled
\* system call by system call: open(path, "w") truncates the file, flock
\* waits for the lock, write puts the content into the file object, whose
\* buffer reaches the file during write (a content of at least the chunk
\* size) or when the with-block closes the file (a shorter content).

max_retries == 3

\* retry_delay, in milliseconds
retry_delay == 100

\* the chunk size of the text layer of a file object (io.DEFAULT_BUFFER_SIZE,
\* scaled down): a pending content of at least this many bytes is written out
\* by write itself
ChunkSize == 2

\* the serialized contents of the saves
Contents == { <<"a">>, <<"b", "b", "b">> }

\* a task that is not inside write_to_yaml_file
NotWriting ==
  [ pc |-> "idle", content |-> << >>, attempt |-> 0, buffer |-> << >>,
    opened |-> 0, failed |-> 0, slept |-> 0 ]

InitWrite ==
  /\ yaml_file = NoFile
  /\ writers = [w \in Callers |-> NotWriting]
  /\ CorpusIdle
  /\ TraceIdle
  /\ RoundTripIdle
  /\ OtherIdle

\* the bytes of a file after data was written at offset 0 of it
WriteAtStart(bytes, data) ==
  IF Len(data) >= Len(bytes) THEN data
  ELSE data \o SubSeq(bytes, Len(data) + 1, Len(bytes))

\* except (ValueError, OSError): the last attempt raises, the others sleep
Handler_Swallowed(attempt) ==
  IF attempt < max_retries - 1 THEN "sleep" ELSE "returned"

Handler(attempt) ==
  IF attempt < max_retries - 1 THEN "sleep" ELSE "raised"

\* the call, and the first turn of for attempt in range(max_retries)
write_to_yaml_file(w, content) ==
  /\ writers[w].pc = "idle"
  /\ writers' = [writers EXCEPT ![w] = [NotWriting EXCEPT !.pc = "open", !.content = content]]
  /\ UNCHANGED yaml_file
  /\ UNCHANGED <<corpusVars, traceVars, roundTripVars, otherVars>>

\* open(yaml_path, "w"): the file is created or truncated, before any lock
WriteOpen(w) ==
  /\ writers[w].pc = "open"
  /\ yaml_file' = [yaml_file EXCEPT !.exists = TRUE, !.bytes = << >>]
  /\ writers' = [writers EXCEPT ![w].pc = "flock", ![w].opened = @ + 1, ![w].buffer = << >>]
  /\ UNCHANGED <<corpusVars, traceVars, roundTripVars, otherVars>>

\* open raises OSError
WriteOpenFails(w) ==
  /\ writers[w].pc = "open"
  /\ writers' = [writers EXCEPT ![w].pc = Handler(writers[w].attempt),
                                ![w].opened = @ + 1, ![w].failed = @ + 1]
  /\ UNCHANGED yaml_file
  /\ UNCHANGED <<corpusVars, traceVars, roundTripVars, otherVars>>

\* fcntl.flock(yaml_file.fileno(), fcntl.LOCK_EX) waits until the lock is free
WriteFlock(w) ==
  /\ writers[w].pc = "flock"
  /\ yaml_file.locked_by = 0
  /\ yaml_file' = [yaml_file EXCEPT !.locked_by = w]
  /\ writers' = [writers EXCEPT ![w].pc = "write"]
  /\ UNCHANGED <<corpusVars, traceVars, roundTripVars, otherVars>>

\* yaml_file.write(content)
WriteContent(w) ==
  /\ writers[w].pc = "write"
  /\ IF Len(writers[w].content) >= ChunkSize
     THEN /\ yaml_file' = [yaml_file EXCEPT !.bytes = WriteAtStart(@, writers[w].content)]
          /\ writers' = [writers EXCEPT ![w].pc = "unlock"]
     ELSE /\ writers' = [writers EXCEPT ![w].pc = "unlock", ![w].buffer = writers[w].content]
          /\ UNCHANGED yaml_file
  /\ UNCHANGED <<corpusVars, traceVars, roundTripVars, otherVars>>

\* finally: fcntl.flock(yaml_file.fileno(), fcntl.LOCK_UN)
WriteUnlock(w) ==
  /\ writers[w].pc = "unlock"
  /\ yaml_file' = [yaml_file EXCEPT !.locked_by = 0]
  /\ writers' = [writers EXCEPT ![w].pc = "close"]
  /\ UNCHANGED <<corpusVars, traceVars, roundTripVars, otherVars>>

\* return leaves the with-block: the file is closed and its buffer flushed
WriteClose(w) ==
  /\ writers[w].pc = "close"
  /\ yaml_file' = IF writers[w].buffer = << >> THEN yaml_file
                  ELSE [yaml_file EXCEPT !.bytes = WriteAtStart(@, writers[w].buffer)]
  /\ writers' = [writers EXCEPT ![w].pc = "returned", ![w].buffer = << >>]
  /\ UNCHANGED <<corpusVars, traceVars, roundTripVars, otherVars>>

\* the flush of close raises OSError (no space left): nothing is written
WriteCloseFails(w) ==
  /\ writers[w].pc = "close"
  /\ writers[w].buffer # << >>
  /\ writers' = [writers EXCEPT ![w].pc = Handler(writers[w].attempt),
                                ![w].buffer = << >>, ![w].failed = @ + 1]
  /\ UNCHANGED yaml_file
  /\ UNCHANGED <<corpusVars, traceVars, roundTripVars, otherVars>>

\* time.sleep(retry_delay), then the next turn of the loop
WriteSleep(w) ==
  /\ writers[w].pc = "sleep"
  /\ writers' = [writers EXCEPT ![w].pc = "open", ![w].attempt = @ + 1,
                                ![w].slept = @ + retry_delay]
  /\ UNCHANGED yaml_file
  /\ UNCHANGED <<corpusVars, traceVars, roundTripVars, otherVars>>

NextWrite ==
  \/ \E w \in Callers, content \in Contents : write_to_yaml_file(w, content)
  \/ \E w \in Callers : WriteOpen(w)
  \/ \E w \in Callers : WriteOpenFails(w)
  \/ \E w \in Callers : WriteFlock(w)
  \/ \E w \in Callers : WriteContent(w)
  \/ \E w \in Callers : WriteUnlock(w)
  \/ \E w \in Callers : WriteClose(w)
  \/ \E w \in Callers : WriteCloseFails(w)
  \/ \E w \in Callers : WriteSleep(w)

SpecWrite == InitWrite /\ [][NextWrite]_vars

(* ------------- to_dict / from_dict, save_to_disk / load_from_file -------- *)
\* A text is a sequence of characters. None, where a text may stand, is
\* NoneText.
NoneText == <<NoneStr>>

DigitChars == <<"0", "1", "2", "3", "4", "5", "6", "7", "8", "9">>

\* str(n) of a natural number
RECURSIVE IntToStr(_)
IntToStr(n) ==
  IF n < 10 THEN <<DigitChars[n + 1]>>
  ELSE IntToStr(n \div 10) \o <<DigitChars[(n % 10) + 1]>>

\* int(text): the number, or ValueError (-1) for a text that is not one
RECURSIVE StrToInt(_)
StrToInt(text) ==
  IF text = << >> THEN NoneInt
  ELSE LET last == Last(text)
           digit == IF \E d \in 1..10 : DigitChars[d] = last
                    THEN (CHOOSE d \in 1..10 : DigitChars[d] = last) - 1
                    ELSE NoneInt
           front == SubSeq(text, 1, Len(text) - 1)
       IN  IF digit = NoneInt THEN NoneInt
           ELSE IF front = << >> THEN digit
           ELSE IF StrToInt(front) = NoneInt THEN NoneInt
           ELSE StrToInt(front) * 10 + digit

\* text.split(sep, 1): the parts before and after the first sep, or the text
\* alone when sep is not in it
Split(text, sep) ==
  IF \E i \in 1..Len(text) : text[i] = sep
  THEN LET i == CHOOSE j \in 1..Len(text) :
                  text[j] = sep /\ \A k \in 1..(j - 1) : text[k] # sep
       IN  <<SubSeq(text, 1, i - 1), SubSeq(text, i + 1, Len(text))>>
  ELSE <<text>>

\* target_file_lines_to_str: "path:start-end", None for the default
target_file_lines_to_str(file_lines) ==
  IF file_lines[1] = NoneText THEN NoneText
  ELSE file_lines[1] \o <<":">> \o IntToStr(file_lines[2][1]) \o <<"-">> \o IntToStr(file_lines[2][2])

\* the tuple an unset target has
NoTargetFileLines == <<NoneText, NoTarget>>

\* str_to_target_file_lines: split(":", 1), then split("-", 1), then int
str_to_target_file_lines(value) ==
  LET parts == Split(value, ":")
      lines == Split(parts[2], "-")
  IN  IF value = << >> THEN [raised |-> NoneStr, value |-> NoTargetFileLines]
      ELSE IF Len(parts) < 2 \/ Len(lines) < 2
             \/ StrToInt(lines[1]) = NoneInt \/ StrToInt(lines[2]) = NoneInt
      THEN [raised |-> "ValueError", value |-> NoTargetFileLines]
      ELSE [raised |-> NoneStr,
            value |-> <<parts[1], <<StrToInt(lines[1]), StrToInt(lines[2])>>>>]

\* a Usage object, and what model_dump and model_validate make of it
Usage(call_cnt) == [kind |-> "Usage", call_cnt |-> call_cnt]

IsUsage(value) == "kind" \in DOMAIN value

model_dump(usage) == [call_cnt |-> usage.call_cnt]

model_validate(value) == Usage(value.call_cnt)

\* format_usage_dict: Usage objects are dumped, in the map and in the maps
\* nested in it, and the result is written as a YAML text
format_value(value) ==
  IF IsUsage(value) THEN model_dump(value)
  ELSE [k \in DOMAIN value |-> model_dump(value[k])]

format_usage_dict(usage_dict) ==
  [yaml |-> [k \in DOMAIN usage_dict |-> format_value(usage_dict[k])]]

\* _process_nested_usage_dict
_process_nested_usage_dict(nested_dict) ==
  [k \in DOMAIN nested_dict |-> model_validate(nested_dict[k])]

\* parse_usage_dict: a map with a TOTAL key is a nested map, any other map is
\* one dumped Usage object
parse_usage_dict(yaml_str) ==
  LET data == yaml_str.yaml
  IN  [k \in DOMAIN data |->
         IF "TOTAL" \in DOMAIN data[k] THEN _process_nested_usage_dict(data[k])
         ELSE model_validate(data[k])]

\* str(state) and TestcaseState[name]
StateName(state) == [name |-> state]

StateOf(name) == name.name

\* process_dict_for_yaml
process_dict_for_yaml(data) ==
  [data EXCEPT
     !.target_file_lines = target_file_lines_to_str(@),
     !.states = IF @ = << >> THEN @ ELSE [i \in 1..Len(@) |-> StateName(@[i])],
     !.usage = IF DOMAIN @ = {} THEN @ ELSE format_usage_dict(@)]

\* process_dict_from_yaml; an exception of str_to_target_file_lines leaves it
process_dict_from_yaml(data) ==
  LET lines == IF data.target_file_lines = NoneText
               THEN [raised |-> NoneStr, value |-> NoTargetFileLines]
               ELSE str_to_target_file_lines(data.target_file_lines)
  IN  [ raised |-> lines.raised,
        data |-> [data EXCEPT
                    !.target_file_lines = lines.value,
                    !.states = IF @ = << >> THEN @ ELSE [i \in 1..Len(@) |-> StateOf(@[i])],
                    !.usage = IF "yaml" \in DOMAIN @ THEN parse_usage_dict(@) ELSE @] ]

\* to_dict: asdict without the private fields, processed for YAML
to_dict(tc) == process_dict_for_yaml(tc)

\* from_dict: the processed fields go through the constructor, which assigns
\* them in declaration order through __setattr__
from_dict(data) ==
  LET processed == process_dict_from_yaml(data)
  IN  [ raised |-> processed.raised,
        case |-> SetAttr(processed.data, "exec_code", processed.data.exec_code) ]

\* load_from_file of the file save_to_disk wrote from data: from_dict, then
\* time_taken is set to the file's value
LoadFromFile(data) ==
  LET tc == from_dict(data)
  IN  [raised |-> tc.raised, case |-> SetAttr(tc.case, "time_taken", data.time_taken)]

\* the paths of target files, relative to the project
Paths == { <<"m", ".", "c">>, <<"a", "-", "b">>, <<"a", ":", "b">> }

TargetFileLines ==
  {NoTargetFileLines} \cup {<<f, l>> : f \in Paths, l \in {<<1, 1>>, <<9, 12>>}}

StateLists == { << >>, <<SUMMARIZE, SOLVE>>, <<SUMMARIZE, SOLVE, EXECUTE, FINISHED>> }

\* usage maps as the constructor and add_usage leave them
Usages ==
  { [TOTAL |-> Usage(0)],
    [TOTAL |-> Usage(2), SOLVE |-> [TOTAL |-> Usage(2), think |-> Usage(2)]] }

InitRoundTrip ==
  /\ CorpusIdle
  /\ TraceIdle
  /\ WriteIdle
  /\ RoundTripIdle
  /\ OtherIdle

\* a case is built and brought to its state list; time_taken is what the
\* assignments left in it
MakeCase(states, target_file_lines, usage) ==
  /\ original = NoCase
  /\ original' = SetAttr([ id |-> 0, time_taken |-> NoneInt, states |-> states,
                           usage |-> usage, target_file_lines |-> target_file_lines,
                           exec_code |-> CHOOSE c \in Codes : TRUE ],
                         "exec_code", CHOOSE c \in Codes : TRUE)
  /\ UNCHANGED restored
  /\ UNCHANGED <<corpusVars, traceVars, writeVars, otherVars>>

\* restored = TestCase.from_dict(original.to_dict())
RoundTripDict ==
  /\ original # NoCase
  /\ restored = NoRestore
  /\ restored' = [route |-> "from_dict"] @@ from_dict(to_dict(original))
  /\ UNCHANGED original
  /\ UNCHANGED <<corpusVars, traceVars, writeVars, otherVars>>

\* original.save_to_disk(); restored = TestCase.load_from_file(path, out_dir)
RoundTripFile ==
  /\ original # NoCase
  /\ restored = NoRestore
  /\ restored' = [route |-> "load_from_file"] @@ LoadFromFile(to_dict(original))
  /\ UNCHANGED original
  /\ UNCHANGED <<corpusVars, traceVars, writeVars, otherVars>>

NextRoundTrip ==
  \/ \E s \in StateLists, l \in TargetFileLines, u \in Usages : MakeCase(s, l, u)
  \/ RoundTripDict
  \/ RoundTripFile
  \/ Tick

SpecRoundTrip == InitRoundTrip /\ [][NextRoundTrip]_vars

(* ------------- Coverage.save_to_file / Coverage.load_from_file ----------- *)
\* The registry holds the collector of one file. save_to_file copies the
\* registry and either writes the copy itself or hands it to a worker process,
\* after the worker of the previous asynchronous save has ended.

\* at most MaxSaves asynchronous saves are started
MaxSaves == 2

\* a worker process is alive from start() until its target returns
Alive(worker) == worker.pc \in {"started", "writing"}

InitSave ==
  /\ source = SharedSource
  /\ file2cov = TraceCollector(SharedSource)
  /\ ingest = NoCall
  /\ ingesting = << >>
  /\ SaveIdle
  /\ AgentIdle
  /\ CorpusIdle
  /\ WriteIdle
  /\ RoundTripIdle

\* the trace the caller ingests between its saves and loads
SaveTraces == { <<"[t.c] enter f 1", "exit f 1">> }

\* the caller of save_to_file and load_from_file mutates the registry between
\* its calls
SaveMutate(trace_str) ==
  /\ saver.pc = "idle"
  /\ collect_trace(trace_str, NoTarget, TRUE)

\* save_to_file without the join on the previous worker
PriorSaveEnded_NoJoin == TRUE

\* if _save_process is not None and _save_process.is_alive(): join()
PriorSaveEnded == IF save_process = 0 THEN TRUE ELSE ~Alive(workers[save_process])

\* save_to_file(file_path, async_save=True), up to the join: the registry is
\* deep-copied
save_to_file ==
  /\ saver.pc = "idle"
  /\ Len(workers) < MaxSaves
  /\ saver' = [ pc |-> "join", data_to_save |-> file2cov,
                waits |-> save_process # 0 /\ Alive(workers[save_process]) ]
  /\ UNCHANGED <<save_process, workers, cov_file, loaded>>
  /\ UNCHANGED <<corpusVars, traceVars, writeVars, roundTripVars, agentVars>>

\* the previous worker has ended: the new worker is started with the copy and
\* save_to_file returns True
SaveStart ==
  /\ saver.pc = "join"
  /\ PriorSaveEnded
  /\ workers' = Append(workers, [ pc |-> "started", data |-> saver.data_to_save,
                                  waited |-> saver.waits ])
  /\ save_process' = Len(workers) + 1
  /\ saver' = [pc |-> "idle"]
  /\ UNCHANGED <<cov_file, loaded>>
  /\ UNCHANGED <<corpusVars, traceVars, writeVars, roundTripVars, agentVars>>

\* save_to_file(file_path, async_save=False): the caller writes the copy
\* itself, whether or not a worker is writing the same file
SaveSync ==
  /\ saver.pc = "idle"
  /\ cov_file' = [state |-> "complete", data |-> file2cov, by |-> 0]
  /\ UNCHANGED <<save_process, workers, saver, loaded>>
  /\ UNCHANGED <<corpusVars, traceVars, writeVars, roundTripVars, agentVars>>

\* _save_to_file_process: open(file_path, "wb") truncates the file
WorkerOpen(w) ==
  /\ w \in DOMAIN workers
  /\ workers[w].pc = "started"
  /\ workers' = [workers EXCEPT ![w].pc = "writing"]
  /\ cov_file' = [state |-> "partial", by |-> w]
  /\ UNCHANGED <<save_process, saver, loaded>>
  /\ UNCHANGED <<corpusVars, traceVars, writeVars, roundTripVars, agentVars>>

\* a worker that dumps the registry as it is when it writes
DumpedData_Live(w) == file2cov

\* dill.dump(data, f, ...): the data handed to the worker
DumpedData(w) == workers[w].data

\* _save_to_file_process: the dump, and the end of the worker. A file that
\* was written by someone else since this worker opened it ends as the
\* worker's data or as a mixture of the two
WorkerDump(w) ==
  /\ w \in DOMAIN workers
  /\ workers[w].pc = "writing"
  /\ workers' = [workers EXCEPT ![w].pc = "exited"]
  /\ \/ cov_file' = [state |-> "complete", data |-> DumpedData(w), by |-> w]
     \/ /\ cov_file.by # w
        /\ cov_file' = [state |-> "corrupt", by |-> w]
  /\ UNCHANGED <<save_process, saver, loaded>>
  /\ UNCHANGED <<corpusVars, traceVars, writeVars, roundTripVars, agentVars>>

\* _save_to_file_process: except Exception: the error is logged and the worker
\* ends; an open that failed has not touched the file
WorkerFails(w) ==
  /\ w \in DOMAIN workers
  /\ Alive(workers[w])
  /\ workers' = [workers EXCEPT ![w].pc = "failed"]
  /\ UNCHANGED <<save_process, cov_file, saver, loaded>>
  /\ UNCHANGED <<corpusVars, traceVars, writeVars, roundTripVars, agentVars>>

\* load_from_file that answers a failed load with a fresh registry
LoadedFile2cov_Fresh(file, registry) ==
  IF file.state = "complete" THEN file.data ELSE NoCollector

\* load_from_file: instance.file2cov = loaded_data["file2cov"], or the
\* exception of open or dill.load, which leaves the instance as it is
LoadedFile2cov(file, registry) ==
  IF file.state = "complete" THEN file.data ELSE registry

\* Coverage.load_from_file(file_path)
Coverage_load_from_file ==
  /\ saver.pc = "idle"
  /\ file2cov' = LoadedFile2cov(cov_file, file2cov)
  /\ loaded' = [ status |-> IF cov_file.state = "complete" THEN "loaded" ELSE "failed",
                 file |-> cov_file, before |-> file2cov ]
  /\ UNCHANGED <<source, ingest, ingesting>>
  /\ UNCHANGED <<save_process, workers, cov_file, saver>>
  /\ UNCHANGED <<corpusVars, writeVars, roundTripVars, agentVars>>

NextSave ==
  \/ \E trace_str \in SaveTraces : SaveMutate(trace_str)
  \/ save_to_file
  \/ SaveStart
  \/ SaveSync
  \/ \E w \in 1..MaxSaves : WorkerOpen(w)
  \/ \E w \in 1..MaxSaves : WorkerDump(w)
  \/ \E w \in 1..MaxSaves : WorkerFails(w)
  \/ Coverage_load_from_file

SpecSave == InitSave /\ [][NextSave]_vars

(* ---------- TestCaseManager.get_all_scheduling_information --------------- *)
\* A text is known by its length in characters. A corpus is a function from
\* ids to cases; a case carries the length of the information text
\* get_test_case_scheduling_information builds for it.

\* at most MaxView cases are in the corpus the view is built from
MaxView == 3

TOKEN_LIMIT == 180000

\* len(SCHEDULING_FORMAT_REMINDER)
ReminderLen == 305

\* estimate_text_token of a text of n characters: 3.5 characters a token
estimate_text_token(n) == (2 * n) \div 7

\* the information texts are 20,000, 100,000 or 200,000 tokens long
InfoLens == {70000, 350000, 700000}

\* the cases a corpus may hold: valuable by new coverage, valuable by target
\* coverage, or not valuable; never selected, or selected twice with one
\* success
ViewCases ==
  { [ new_coverage |-> f[1], is_target_covered |-> f[2],
      selected_cnt |-> c[1], successful_generation_cnt |-> c[2], info_len |-> n ] :
      f \in {<<TRUE, FALSE>>, <<FALSE, TRUE>>, <<FALSE, FALSE>>},
      c \in {<<0, 0>>, <<2, 1>>},
      n \in InfoLens }

Corpora == UNION { [0..(n - 1) -> ViewCases] : n \in 0..MaxView }

\* the key (weight, id) of a case is greater than that of another
KeyGreater(corpus, i, j) ==
  LET a == get_test_case_scheduling_weight(corpus[i])
      b == get_test_case_scheduling_weight(corpus[j])
  IN  \/ a[1] * b[2] > b[1] * a[2]
      \/ a[1] * b[2] = b[1] * a[2] /\ i > j

\* sort(key=lambda x: (x[1], x[2])) without reverse=True
SortsBefore_Ascending(corpus, i, j) == KeyGreater(corpus, j, i)

\* valuable_testcase_info.sort(key=lambda x: (x[1], x[2]), reverse=True)
SortsBefore(corpus, i, j) == KeyGreater(corpus, i, j)

RECURSIVE Sorted(_, _)
Sorted(corpus, ids) ==
  IF ids = {} THEN << >>
  ELSE LET first == CHOOSE i \in ids : \A j \in ids \ {i} : SortsBefore(corpus, i, j)
       IN  <<first>> \o Sorted(corpus, ids \ {first})

\* for tc_id, tc in self.test_cases.items(): the valuable cases, by id
RECURSIVE ById(_)
ById(ids) ==
  IF ids = {} THEN << >>
  ELSE LET first == CHOOSE i \in ids : \A j \in ids : i <= j
       IN  <<first>> \o ById(ids \ {first})

\* len("\n\n".join([SCHEDULING_FORMAT_REMINDER] + infos))
RECURSIVE JoinedLen(_, _)
JoinedLen(corpus, view) ==
  IF view = << >> THEN ReminderLen
  ELSE JoinedLen(corpus, SubSeq(view, 1, Len(view) - 1)) + 2 + corpus[Last(view)].info_len

\* the truncation loop from position k of the sorted list: truncated_len is
\* len(truncated_str), selected the ids appended so far
RECURSIVE Truncate(_, _, _, _, _)
Truncate(corpus, order, k, truncated_len, selected) ==
  IF k > Len(order) THEN [status |-> "AssertionError", view |-> << >>]
  ELSE IF estimate_text_token(truncated_len + corpus[order[k]].info_len) > TOKEN_LIMIT
    THEN IF selected = << >> THEN [status |-> "AssertionError", view |-> << >>]
         ELSE [status |-> "returned", view |-> selected]
  ELSE Truncate(corpus, order, k + 1,
                truncated_len + corpus[order[k]].info_len + 2, Append(selected, order[k]))

\* get_all_scheduling_information: the ids of the returned dict, in its order
get_all_scheduling_information(corpus) ==
  LET valuable == {i \in DOMAIN corpus : is_valuable(corpus[i])}
      raw_len == JoinedLen(corpus, ById(valuable))
  IN  IF DOMAIN corpus = {} THEN [status |-> "ValueError", view |-> << >>]
      ELSE IF estimate_text_token(raw_len) > TOKEN_LIMIT
      THEN Truncate(corpus, Sorted(corpus, valuable), 1, ReminderLen + 2, << >>)
      ELSE [status |-> "returned", view |-> ById(valuable)]

InitView ==
  /\ CorpusIdle
  /\ TraceIdle
  /\ WriteIdle
  /\ RoundTripIdle
  /\ OtherIdle

\* the manager of some corpus is asked for the scheduling view
CallSchedulingInformation(corpus) ==
  /\ tool = NoToolCall
  /\ tool' = [name |-> "get_all_scheduling_information", test_cases |-> corpus]
               @@ get_all_scheduling_information(corpus)
  /\ UNCHANGED <<sched_cache, session>>
  /\ UNCHANGED <<corpusVars, traceVars, writeVars, roundTripVars, saveVars>>

NextView ==
  /\ tool = NoToolCall
  /\ \E corpus \in Corpora : CallSchedulingInformation(corpus)

SpecView == InitView /\ [][NextView]_vars

(* ========================= the scheduler agent ========================== *)
\* model responses of one schedule call
MaxRounds == 2

\* tool calls the model makes in one schedule call
MaxToolCalls == 2

\* ids of the cases a view can name
SchedIds == 0..(MaxCases - 1)

\* ids a provide_selection call can name: those and one that no view names
ArgIds == 0..MaxCases

\* the scheduling info of a case: of its text the model keeps the id and the
\* selected_cnt that the historical information shows
TcInfo(id, selected_cnt) == [id |-> id, selected_cnt |-> selected_cnt]

\* provided_tc_info: the infos in the order of the dict, no id twice; here of
\* cases that were never selected
ProvidedViews ==
  { [k \in DOMAIN v |-> TcInfo(v[k], 0)] :
      v \in { w \in UNION { [1..n -> SchedIds] : n \in 1..MaxCases } :
                \A i, j \in DOMAIN w : i # j => w[i] # w[j] } }

\* provided_tc_info.keys()
Keys(provided_tc_info) == { provided_tc_info[k].id : k \in DOMAIN provided_tc_info }

\* a message of a MessageThread
Message(role, content, infos, tool_calls, name, tool_call_id) ==
  [role |-> role, content |-> content, infos |-> infos, tool_calls |-> tool_calls,
   name |-> name, tool_call_id |-> tool_call_id]

add_system(thread, content) ==
  Append(thread, Message("system", content, << >>, << >>, NoneStr, NoneInt))

add_user(thread, content, infos) ==
  Append(thread, Message("user", content, infos, << >>, NoneStr, NoneInt))

add_model(thread, tool_calls) ==
  Append(thread, Message("assistant", "response", << >>, tool_calls, NoneStr, NoneInt))

add_tool(thread, observation, name, tool_call_id) ==
  Append(thread, Message("tool", observation, << >>, << >>, name, tool_call_id))

\* the infos of provided_tc_info whose ids are not in already_cached_tc_ids,
\* in the order of the dict
RECURSIVE NewTcIds(_, _, _)
NewTcIds(provided_tc_info, cached, k) ==
  IF k > Len(provided_tc_info) THEN << >>
  ELSE IF provided_tc_info[k].id \in cached
         THEN NewTcIds(provided_tc_info, cached, k + 1)
         ELSE <<provided_tc_info[k]>> \o NewTcIds(provided_tc_info, cached, k + 1)

CanReuse_NonEmpty(cache, provided_tc_info) == cache.previous_ids # {}

CanReuse(cache, provided_tc_info) ==
  /\ cache.previous_ids # {}
  /\ \A tc_id \in cache.previous_ids : tc_id \in Keys(provided_tc_info)

_build_user_prompt(cache, provided_tc_info) ==
  IF CanReuse(cache, provided_tc_info)
    THEN LET new_tc_ids == NewTcIds(provided_tc_info, cache.previous_ids, 1)
         IN  IF new_tc_ids # << >>
               THEN [previous_ids |-> cache.previous_ids \cup Keys(new_tc_ids),
                     msg_thread |-> add_user(cache.msg_thread, "new_tc_info", new_tc_ids)]
               ELSE cache
    ELSE [previous_ids |-> Keys(provided_tc_info),
          msg_thread |->
            add_user(add_system(<< >>, "SYSTEM_PROMPT"),
                     "SCHEDULING_FORMAT_REMINDER", provided_tc_info)]

\* the value a tool call gives for test_case_id
ArgValues ==
  { [type |-> "int", value |-> n] : n \in ArgIds }
    \cup { [type |-> "str", value |-> NoneInt], [type |-> "missing", value |-> NoneInt] }

\* the arguments string of a tool call: no JSON, the JSON null, or a JSON object
ToolArguments ==
  { [text |-> t, test_case_id |-> [type |-> "missing", value |-> NoneInt]] :
      t \in {"malformed", "null"} }
    \cup { [text |-> "object", test_case_id |-> v] : v \in ArgValues }

ModelCalls ==
  { [name |-> "think",
     arguments |-> [text |-> "object",
                    test_case_id |-> [type |-> "missing", value |-> NoneInt]]] }
    \cup { [name |-> "provide_selection", arguments |-> a] : a \in ToolArguments }

\* the tool calls of one response
Responses(budget) == UNION { [1..n -> ModelCalls] : n \in 0..budget }

parse_tool_arguments(tool_call) ==
  LET args == tool_call.function.arguments
  IN  IF args.text = "malformed"
        THEN [raised |-> "RuntimeError", args |-> NoneStr]
        ELSE IF args.text = "null"
               THEN [raised |-> NoneStr, args |-> NoneStr]
               ELSE [raised |-> NoneStr, args |-> "dict"]

process_thinking_tool == "I've recorded your reasoning."

process_selection_AnyInteger(test_case_id, provided_tc_ids) ==
  IF test_case_id.type # "int"
    THEN [observation |-> "Error: test_case_id is not an integer.",
          test_case_id |-> NoneInt]
    ELSE [observation |-> "Test case ID selected for further exploration.",
          test_case_id |-> test_case_id.value]

process_selection(test_case_id, provided_tc_ids) ==
  IF test_case_id.type # "int"
    THEN [observation |-> "Error: test_case_id is not an integer.",
          test_case_id |-> NoneInt]
    ELSE IF test_case_id.value \notin provided_tc_ids
           THEN [observation |->
                   "Error: Test case ID is not in the list of provided test cases.",
                 test_case_id |-> NoneInt]
           ELSE [observation |-> "Test case ID selected for further exploration.",
                 test_case_id |-> test_case_id.value]

\* the observation of a tool call and the id it selects
ProcessToolCall(tool_call, provided_tc_info) ==
  IF parse_tool_arguments(tool_call).args = NoneStr
    THEN [observation |-> "Failed to parse tool call arguments.", test_case_id |-> NoneInt]
    ELSE IF tool_call.function.name = "think"
           THEN [observation |-> process_thinking_tool, test_case_id |-> NoneInt]
           ELSE process_selection(tool_call.function.arguments.test_case_id,
                                  Keys(provided_tc_info))

AppendObservation_FirstCall(thread, tool_calls, tool_call, observation) ==
  add_tool(thread, observation, tool_calls[1].function.name, tool_calls[1].id)

AppendObservation(thread, tool_calls, tool_call, observation) ==
  add_tool(thread, observation, tool_call.function.name, tool_call.id)

\* update_usage_details: the part of the usage of a model call is attributed
\* to the labels of last_call
update_usage_details(usage_details, last_call, call, part) ==
  Append(usage_details, [call |-> call, part |-> part, labels |-> last_call])

InitSched ==
  /\ CorpusIdle
  /\ TraceIdle
  /\ WriteIdle
  /\ RoundTripIdle
  /\ OtherIdle

\* schedule up to the first model call
Schedule(provided_tc_info) ==
  /\ session.pc \in {NoneStr, "returned", "raised"}
  /\ sched_cache' = _build_user_prompt(sched_cache, provided_tc_info)
  /\ session' = [pc |-> "ask",
                 provided_tc_info |-> provided_tc_info,
                 msg_thread |-> sched_cache'.msg_thread,
                 selected_test_case_id |-> NoneInt,
                 response_tool_calls |-> << >>,
                 next |-> 0,
                 rounds |-> 0,
                 tool_calls |-> 0,
                 usage_details |-> << >>,
                 last_call |-> <<"INITIAL">>]
  /\ UNCHANGED tool
  /\ UNCHANGED <<corpusVars, traceVars, writeVars, roundTripVars, saveVars>>

\* the model answers: its response is added to the thread; a response without
\* tool calls is answered at once and the loop goes round
CallModel(response) ==
  /\ session.pc = "ask"
  /\ session.rounds < MaxRounds
  /\ LET response_tool_calls ==
           [k \in DOMAIN response |->
              [id |-> session.tool_calls + k, function |-> response[k]]]
         thread == add_model(session.msg_thread, response_tool_calls)
         call == session.rounds + 1
         input_part == update_usage_details(session.usage_details, session.last_call,
                                            call, "input")
     IN  session' =
           IF response_tool_calls # << >>
             THEN [session EXCEPT !.pc = "dispatch",
                                  !.msg_thread = thread,
                                  !.response_tool_calls = response_tool_calls,
                                  !.next = 1,
                                  !.rounds = call,
                                  !.tool_calls = @ + Len(response),
                                  !.usage_details = input_part,
                                  !.last_call = << >>]
             ELSE [session EXCEPT !.msg_thread =
                                    add_user(thread, "Please use the provided tools to achieve the goal.", << >>),
                                  !.response_tool_calls = << >>,
                                  !.rounds = call,
                                  !.usage_details =
                                    update_usage_details(input_part, <<"non_tool">>,
                                                         call, "output"),
                                  !.last_call = <<"non_tool">>]
  /\ UNCHANGED <<sched_cache, tool>>
  /\ UNCHANGED <<corpusVars, traceVars, writeVars, roundTripVars, saveVars>>

\* the next tool call of the response is processed; after the last one the
\* loop ends if a test case is selected
DispatchToolCall ==
  /\ session.pc = "dispatch"
  /\ LET tool_call == session.response_tool_calls[session.next]
         result == ProcessToolCall(tool_call, session.provided_tc_info)
         selected == IF result.test_case_id # NoneInt
                       THEN result.test_case_id
                       ELSE session.selected_test_case_id
         last_call == Append(session.last_call, tool_call.function.name)
     IN  session' =
           IF parse_tool_arguments(tool_call).raised # NoneStr
             THEN [session EXCEPT !.pc = "raised", !.last_call = last_call]
             ELSE [session EXCEPT
                     !.msg_thread = AppendObservation(@, session.response_tool_calls,
                                                      tool_call, result.observation),
                     !.selected_test_case_id = selected,
                     !.next = @ + 1,
                     !.last_call = last_call,
                     !.usage_details =
                       IF session.next < Len(session.response_tool_calls) THEN @
                       ELSE update_usage_details(@, last_call, session.rounds, "output"),
                     !.pc = IF session.next < Len(session.response_tool_calls)
                              THEN "dispatch"
                              ELSE IF selected # NoneInt THEN "returned" ELSE "ask"]
  /\ UNCHANGED <<sched_cache, tool>>
  /\ UNCHANGED <<corpusVars, traceVars, writeVars, roundTripVars, saveVars>>

NextSched ==
  \/ \E provided_tc_info \in ProvidedViews : Schedule(provided_tc_info)
  \/ /\ session.pc = "ask"
     /\ \E response \in Responses(MaxToolCalls - session.tool_calls) : CallModel(response)
  \/ DispatchToolCall

SpecSched == InitSched /\ [][NextSched]_vars

(* ------------- scheduling rounds over a corpus that is used -------------- *)
\* the highest selected_cnt a provided info shows
MaxSelected == 1

\* provided_tc_info of a round: get_test_case_scheduling_information builds it
\* in the order of the corpus map (ascending ids), each info with the
\* selected_cnt the case has at that round
RoundViews ==
  { v \in UNION { [1..n -> { TcInfo(i, c) : i \in SchedIds, c \in 0..MaxSelected }] :
                    n \in 1..MaxCases } :
      \A i, j \in DOMAIN v : i < j => v[i].id < v[j].id }

\* the tool calls of the model in these rounds: a thought, the selection of
\* case 0, the selection of an id that no view names
RoundCalls ==
  { c \in ModelCalls :
      \/ c.name = "think"
      \/ /\ c.arguments.text = "object"
         /\ c.arguments.test_case_id.type = "int"
         /\ c.arguments.test_case_id.value \in {0, MaxCases} }

RoundResponses(budget) == UNION { [1..n -> RoundCalls] : n \in 0..budget }

\* selected_cnt never falls: no info of the view shows less than an info of
\* the same case that an earlier round has put into the cached thread
NotBelowCached(provided_tc_info) ==
  \A k \in DOMAIN provided_tc_info :
    \A m \in DOMAIN sched_cache.msg_thread :
      \A j \in DOMAIN sched_cache.msg_thread[m].infos :
        sched_cache.msg_thread[m].infos[j].id = provided_tc_info[k].id =>
          sched_cache.msg_thread[m].infos[j].selected_cnt <= provided_tc_info[k].selected_cnt

NextRounds ==
  \/ /\ session.pc \in {NoneStr, "returned", "raised"}
     /\ \E provided_tc_info \in {v \in RoundViews : NotBelowCached(v)} :
          Schedule(provided_tc_info)
  \/ /\ session.pc = "ask"
     /\ \E response \in RoundResponses(MaxToolCalls - session.tool_calls) :
          CallModel(response)
  \/ DispatchToolCall

SpecRounds == InitSched /\ [][NextRounds]_vars

(* ========================== the tool handlers =========================== *)
\* characters of a line range text
MaxRangeLen == 3

RangeChars == {"0", "1", "2", "3", "-", "x"}

LineRanges == UNION { [1..n -> RangeChars] : n \in 0..MaxRangeLen }

\* file_path of expected_covered_lines: the instrumented file, the same with a
\* leading ./, the same below the project directory, a directory, and a path
\* that does not exist
ProjectDir == "/proj"

FilePaths == {"t.c", "./t.c", "/proj/t.c", "src", "none.c"}

normpath(path) == IF path = "./t.c" THEN "t.c" ELSE path

ContainsProjectDir(path) == path = "/proj/t.c"

\* os.path.relpath(path, get_project_dir())
relpath(path) == IF path = "/proj/t.c" THEN "t.c" ELSE path

\* os.path.exists and os.path.isdir of the path below the project directory
path_exists(relative_file_path) == relative_file_path \in {"t.c", "src"}

path_isdir(relative_file_path) == relative_file_path = "src"

\* target_branch and justification: None, blanks, a text
Filled(text) == text \notin {NoneStr, "", " "}

ToolTexts == {NoneStr, " ", "b"}

\* expected_covered_lines: None or (file_path, line_range)
ExpectedCoveredLines ==
  { [given |-> FALSE, file_path |-> NoneStr, line_range |-> << >>] }
    \cup { [given |-> TRUE, file_path |-> p, line_range |-> l] :
             p \in FilePaths, l \in LineRanges }

isdigit(text) ==
  /\ text # << >>
  /\ \A i \in DOMAIN text : \E d \in DOMAIN DigitChars : DigitChars[d] = text[i]

Count(text, char) == Cardinality({ i \in DOMAIN text : text[i] = char })

Min(a, b) == IF a <= b THEN a ELSE b

\* the line range of a text: start-end in any order, or one number
ParseLineRange(line_range) ==
  IF Count(line_range, "-") > 0
    THEN IF \/ Count(line_range, "-") # 1
            \/ ~isdigit(Split(line_range, "-")[1])
            \/ ~isdigit(Split(line_range, "-")[2])
           THEN [valid |-> FALSE, start |-> NoneInt, end |-> NoneInt]
           ELSE LET a == StrToInt(Split(line_range, "-")[1])
                    b == StrToInt(Split(line_range, "-")[2])
                IN  [valid |-> TRUE, start |-> Min(a, b), end |-> Max(a, b)]
    ELSE IF ~isdigit(line_range)
           THEN [valid |-> FALSE, start |-> NoneInt, end |-> NoneInt]
           ELSE [valid |-> TRUE, start |-> StrToInt(line_range),
                 end |-> StrToInt(line_range)]

get_real_line_size(tc) == Cardinality(DOMAIN tc.real_line2line)

NoSelection == <<NoneStr, NoTarget>>

Refused(observation) ==
  [observation |-> observation, is_selected |-> FALSE,
   expected_covered_lines |-> NoSelection]

\* process_target_branch_selection, for the registry's collector of t.c
process_target_branch_selection(target_branch, justification, expected_covered_lines, tc) ==
  IF ~Filled(target_branch)
    THEN Refused("Error: target_branch is not provided or it is empty.")
  ELSE IF ~Filled(justification)
    THEN Refused("Error: justification is not provided or it is empty.")
  ELSE IF ~expected_covered_lines.given
    THEN Refused("Error: expected_covered_lines is not provided or it is empty.")
  ELSE
    LET file_path == expected_covered_lines.file_path
        normalized == normpath(file_path)
        relative_file_path == IF ContainsProjectDir(normalized)
                                THEN relpath(normalized) ELSE normalized
        range == ParseLineRange(expected_covered_lines.line_range)
    IN  IF ~path_exists(relative_file_path)
          THEN Refused("Error: File does not exist.")
        ELSE IF path_isdir(relative_file_path)
          THEN Refused("Error: File is a directory.")
        ELSE IF ~range.valid
          THEN Refused("Error: Invalid line range.")
        ELSE IF range.end > get_real_line_size(tc)
          THEN Refused("Error: Line range is out of bounds.")
        ELSE [observation |-> "New Target branch successfully selected and recorded.",
              is_selected |-> TRUE,
              expected_covered_lines |-> <<relative_file_path, <<range.start, range.end>>>>]

\* path_constraint: None, blanks, a text; selected_branch: None or a text
process_path_constraint_generation(path_constraint, selected_branch) ==
  IF selected_branch = NoneStr
    THEN [observation |-> "Please select an new target branch first before generating path constraints.",
          is_valid |-> FALSE]
  ELSE IF ~Filled(path_constraint)
    THEN [observation |-> "Error: path_constraint is not provided or it is empty.",
          is_valid |-> FALSE]
  ELSE [observation |-> "Path constraint successfully generated and recorded.",
        is_valid |-> TRUE]

\* the registry holds the collector of t.c
InitTools ==
  /\ source = SharedSource
  /\ file2cov = TraceCollector(SharedSource)
  /\ ingest = NoCall
  /\ ingesting = << >>
  /\ CorpusIdle
  /\ WriteIdle
  /\ RoundTripIdle
  /\ OtherIdle

CallProvideSolution(is_satisfiable, python_execution) ==
  /\ tool = NoToolCall
  /\ tool' = [name |-> "provide_solution",
              is_satisfiable |-> is_satisfiable,
              python_execution |-> python_execution,
              result |-> process_solution(is_satisfiable, python_execution)]
  /\ UNCHANGED <<sched_cache, session>>
  /\ UNCHANGED <<corpusVars, traceVars, writeVars, roundTripVars, saveVars>>

CallSelectTargetBranch(target_branch, justification, expected_covered_lines) ==
  /\ tool = NoToolCall
  /\ tool' = [name |-> "select_target_branch",
              target_branch |-> target_branch,
              justification |-> justification,
              expected_covered_lines |-> expected_covered_lines,
              result |-> process_target_branch_selection(
                           target_branch, justification, expected_covered_lines, file2cov)]
  /\ UNCHANGED <<sched_cache, session>>
  /\ UNCHANGED <<corpusVars, traceVars, writeVars, roundTripVars, saveVars>>

CallGeneratePathConstraint(path_constraint, selected_branch) ==
  /\ tool = NoToolCall
  /\ tool' = [name |-> "generate_path_constraint",
              path_constraint |-> path_constraint,
              selected_branch |-> selected_branch,
              result |-> process_path_constraint_generation(path_constraint, selected_branch)]
  /\ UNCHANGED <<sched_cache, session>>
  /\ UNCHANGED <<corpusVars, traceVars, writeVars, roundTripVars, saveVars>>

NextTools ==
  \/ /\ tool = NoToolCall
     /\ \E is_satisfiable \in Verdicts, python_execution \in PythonExecutions :
          CallProvideSolution(is_satisfiable, python_execution)
  \/ /\ tool = NoToolCall
     /\ \E target_branch \in ToolTexts, justification \in ToolTexts,
           expected_covered_lines \in ExpectedCoveredLines :
          CallSelectTargetBranch(target_branch, justification, expected_covered_lines)
  \/ /\ tool = NoToolCall
     /\ \E path_constraint \in ToolTexts, selected_branch \in {NoneStr, "b"} :
          CallGeneratePathConstraint(path_constraint, selected_branch)

SpecTools == InitTools /\ [][NextTools]_vars

(* ============================ code requests ============================= *)
MAX_CODE_REQUEST_ATTEMPTS == 10

\* file requests of one request_code call
MaxRequests == 2

\* a file request: the whole of an existing file, a range of it that is
\* clipped at the last line, and a path that is not found
FileRequests == {"t.c", "t.c:1-9", "none.c"}

\* file_requests as the model sent it: no list, or a list of file requests
NoRequests == <<NoneStr>>

RequestLists == {NoRequests} \cup UNION { [1..n -> FileRequests] : n \in 0..MaxRequests }

RECURSIVE CodeSnippets(_, _)
CodeSnippets(file_requests, k) ==
  IF k > Len(file_requests) THEN << >>
  ELSE IF file_requests[k] = "none.c" THEN CodeSnippets(file_requests, k + 1)
  ELSE <<file_requests[k]>> \o CodeSnippets(file_requests, k + 1)

RECURSIVE ErrorMessages(_, _)
ErrorMessages(file_requests, k) ==
  IF k > Len(file_requests) THEN << >>
  ELSE IF file_requests[k] = "t.c" THEN ErrorMessages(file_requests, k + 1)
  ELSE <<file_requests[k]>> \o ErrorMessages(file_requests, k + 1)

\* the note at the end of the result: the attempts left, or that the maximum
\* is reached
AttemptsNote(remaining_attempts) ==
  IF remaining_attempts > 0
    THEN [note |-> "attempts left", left |-> remaining_attempts]
    ELSE [note |-> "maximum reached", left |-> 0]

\* process_code_request: the parts of the text it returns
process_code_request(file_requests, remaining_attempts) ==
  IF file_requests = NoRequests
    THEN [observation |-> "Error: No file_requests provided or it is not a list.",
          code_snippets |-> << >>, error_messages |-> << >>,
          note |-> NoneStr, left |-> NoneInt]
    ELSE [observation |-> "result",
          code_snippets |-> CodeSnippets(file_requests, 1),
          error_messages |-> ErrorMessages(file_requests, 1)]
           @@ AttemptsNote(remaining_attempts)

InitSummarize ==
  /\ CorpusIdle
  /\ TraceIdle
  /\ WriteIdle
  /\ RoundTripIdle
  /\ SaveIdle
  /\ sched_cache = [previous_ids |-> {}, msg_thread |-> << >>]
  /\ session = [pc |-> "summarize", code_requests |-> 0]
  /\ tool = NoToolCall

\* the summarizer session counts the request and passes the attempts that are
\* left after it
RequestCode(file_requests) ==
  /\ session.pc = "summarize"
  /\ session.code_requests <= MAX_CODE_REQUEST_ATTEMPTS
  /\ session' = [session EXCEPT !.code_requests = @ + 1]
  /\ tool' = [name |-> "request_code",
              file_requests |-> file_requests,
              remaining_attempts |-> MAX_CODE_REQUEST_ATTEMPTS - session'.code_requests,
              result |-> process_code_request(
                           file_requests,
                           MAX_CODE_REQUEST_ATTEMPTS - session'.code_requests)]
  /\ UNCHANGED sched_cache
  /\ UNCHANGED <<corpusVars, traceVars, writeVars, roundTripVars, saveVars>>

NextSummarize == \E file_requests \in RequestLists : RequestCode(file_requests)

SpecSummarize == InitSummarize /\ [][NextSummarize]_vars

(* ============================= usage of a case ========================== *)
\* add_usage calls on one case
MaxAddUsage == 3

\* the usage of one agent session: its TOTAL and the bucket of one tool
SessionUsages == { [TOTAL |-> Usage(n), think |-> Usage(n)] : n \in 1..2 }

\* Usage.__add__
UsageSum(a, b) == Usage(a.call_cnt + b.call_cnt)

\* add_usage: TOTAL is raised, then the label is looked up and the usage is
\* stored under it
add_usage(tc, usage, state) ==
  LET added == [tc EXCEPT !.usage.TOTAL = UsageSum(@, usage.TOTAL)]
      label == IF state = NoneStr THEN current_state(tc) ELSE state
  IN  IF label \in DOMAIN added.usage
        THEN [raised |-> "AssertionError", tc |-> added]
        ELSE [raised |-> NoneStr, tc |-> [added EXCEPT !.usage = Put(@, label, usage)]]

\* a case as from_src builds it, with the default usage map
InitUsage ==
  /\ original = [id |-> 1, time_taken |-> 0, states |-> <<SELECT, SUMMARIZE>>,
                 usage |-> [TOTAL |-> Usage(0)]]
  /\ restored = [route |-> "add_usage", n |-> 0, raised |-> NoneStr]
  /\ CorpusIdle
  /\ TraceIdle
  /\ WriteIdle
  /\ OtherIdle

UsageAddState(state) ==
  /\ \A k \in DOMAIN original.states : original.states[k] # state
  /\ current_state(original) # FINISHED
  /\ original' = add_state(original, state)
  /\ UNCHANGED restored
  /\ UNCHANGED <<corpusVars, traceVars, writeVars, otherVars>>

AddUsage(usage, state) ==
  /\ restored.n < MaxAddUsage
  /\ LET r == add_usage(original, usage, state)
     IN  /\ original' = r.tc
         /\ restored' = [route |-> "add_usage", n |-> restored.n + 1, raised |-> r.raised]
  /\ UNCHANGED <<corpusVars, traceVars, writeVars, otherVars>>

NextUsage ==
  \/ \E state \in {SOLVE, EXECUTE, FINISHED} : UsageAddState(state)
  \/ \E usage \in SessionUsages, state \in {NoneStr, SUMMARIZE, SOLVE} : AddUsage(usage, state)

SpecUsage == InitUsage /\ [][NextUsage]_vars

(* ======================= the compressed call chain ====================== *)
\* lines of a trace handed to trace_compress
MaxTraceLines == 3

\* re.findall(FILE_TRACE_PATTERN, line.strip()) with FILE_TRACE_PATTERN =
\* \[([^\s\]]+)\]\s+(enter|exit)\s+([^\s]+)\s+(\d+) : every marker of the line
\* that carries its file name, as (file_name, action, func_name, block_id)
FileTraceMatches(line) ==
  CASE line = "[t.c] enter f 1" -> << <<"t.c", "enter", "f", 1>> >>
    [] line = "[t.c] enter f 2" -> << <<"t.c", "enter", "f", 2>> >>
    [] line = "[t.c] exit f 1" -> << <<"t.c", "exit", "f", 1>> >>
    [] line = "[t.c] enter g 9" -> << <<"t.c", "enter", "g", 9>> >>
    [] line = "[u.c] enter f 1" -> << <<"u.c", "enter", "f", 1>> >>
    [] line = "[t.c] enter f 1 [t.c] enter f 2" ->
         << <<"t.c", "enter", "f", 1>>, <<"t.c", "enter", "f", 2>> >>
    [] OTHER -> << >>

\* the lines a compressed trace is made of
CompressLines ==
  { "[t.c] enter f 1", "[t.c] enter f 2", "[t.c] exit f 1", "[t.c] enter g 9",
    "[u.c] enter f 1", "[t.c] enter f 1 [t.c] enter f 2", "enter f 1" }

RECURSIVE TracesOfLength(_)
TracesOfLength(n) ==
  IF n = 0 THEN {<< >>}
  ELSE {Append(t, l) : t \in TracesOfLength(n - 1), l \in CompressLines}

CompressTraces == UNION {TracesOfLength(n) : n \in 0..MaxTraceLines}

\* last_file_and_func before the first marker
NoFunc == <<NoneStr, NoneStr>>

\* the loops of trace_compress over the lines from `i` and the matches of line
\* i from `k`: a marker of another (file, function) closes the entry of the
\* one before, an enter marker adds its block id to cur_func_blocks
RECURSIVE CompressLoop(_, _, _, _, _, _)
CompressLoop(lines, i, k, last_file_and_func, cur_func_blocks, call_chain) ==
  IF i > Len(lines)
    THEN [ last_file_and_func |-> last_file_and_func,
           cur_func_blocks |-> cur_func_blocks, call_chain |-> call_chain ]
  ELSE IF k > Len(FileTraceMatches(lines[i]))
    THEN CompressLoop(lines, i + 1, 1, last_file_and_func, cur_func_blocks, call_chain)
  ELSE
    LET match == FileTraceMatches(lines[i])[k]
        here == <<match[1], match[3]>>
        last == IF last_file_and_func = NoFunc THEN here ELSE last_file_and_func
        closed == here # last
        blocks == IF closed THEN {} ELSE cur_func_blocks
    IN  CompressLoop(lines, i, k + 1, here,
                     IF match[2] = "enter" THEN blocks \cup {match[4]} ELSE blocks,
                     IF closed
                     THEN Append(call_chain, <<last[1], last[2], cur_func_blocks>>)
                     ELSE call_chain)

\* trace_compress: the call chain of a trace, every entry (file_name,
\* func_name, list(cur_func_blocks)); the list is held as the set it is built
\* from. The entry of the last function is added when it has a block.
trace_compress(trace) ==
  LET end == CompressLoop(trace, 1, 1, NoFunc, {}, << >>)
  IN  IF end.last_file_and_func # NoFunc /\ end.cur_func_blocks # {}
      THEN Append(end.call_chain,
                  <<end.last_file_and_func[1], end.last_file_and_func[2],
                    end.cur_func_blocks>>)
      ELSE end.call_chain

InitCompress ==
  /\ CorpusIdle
  /\ TraceIdle
  /\ WriteIdle
  /\ RoundTripIdle
  /\ OtherIdle

\* a caller compresses the trace of one run
CallTraceCompress(trace) ==
  /\ tool = NoToolCall
  /\ tool' = [name |-> "trace_compress", trace |-> trace,
              call_chain |-> trace_compress(trace)]
  /\ UNCHANGED <<sched_cache, session>>
  /\ UNCHANGED <<corpusVars, traceVars, writeVars, roundTripVars, saveVars>>

NextCompress == tool = NoToolCall /\ \E trace \in CompressTraces : CallTraceCompress(trace)

SpecCompress == InitCompress /\ [][NextCompress]_vars

(* ============================== properties ============================== *)
Cases == DOMAIN test_cases

Kept == DOMAIN test_cases \cap DOMAIN test_cases'

IsSeed(tc) == tc.src_id = NoneInt

\* C1: over add_initial_testcase and create_new_testcase calls every new case
\* gets a non-negative id greater than every id assigned before (the counter
\* never goes back and a new id is at least the counter), no id is reused, and
\* next_testcase_id stays greater than every key of the map.
C1_IdsIncrease ==
  [][ /\ next_testcase_id' >= next_testcase_id
      /\ DOMAIN test_cases \subseteq DOMAIN test_cases'
      /\ \A k \in DOMAIN test_cases' :
           /\ k >= 0
           /\ k < next_testcase_id'
           /\ test_cases'[k].id = k
      /\ \A k \in DOMAIN test_cases' \ DOMAIN test_cases :
           /\ k >= next_testcase_id
           /\ \A j \in DOMAIN test_cases : k > j ]_vars

C1_Witness ==
  /\ Cardinality(Cases) = MaxCases
  /\ \E k \in Cases : ~IsSeed(test_cases[k])
  /\ \E k \in Cases : IsSeed(test_cases[k])

\* C3: a change of a case's state list keeps the previous list as a prefix,
\* and a list that ends with FINISHED never changes again.
C3_StatesOnlyGrow ==
  [][ \A k \in Kept :
        /\ IsPrefix(test_cases[k].states, test_cases'[k].states)
        /\ current_state(test_cases[k]) = FINISHED
             => test_cases'[k].states = test_cases[k].states ]_vars

C3_Witness ==
  \E k \in Cases :
    /\ Len(test_cases[k].states) >= 5
    /\ current_state(test_cases[k]) = FINISHED

\* the transition graph of C4
Edges ==
  { <<SELECT, SUMMARIZE>>,
    <<SUMMARIZE, SOLVE>>,
    <<SOLVE, EXECUTE>>, <<SOLVE, FINISHED>>,
    <<EXECUTE, FINISHED>>, <<EXECUTE, REVIEW_SOLVER>>,
    <<REVIEW_SOLVER, REVIEW_SOLVER_EXECUTE>>, <<REVIEW_SOLVER, REVIEW_SUMMARY>>,
    <<REVIEW_SOLVER_EXECUTE, FINISHED>>,
    <<REVIEW_SUMMARY, REVIEW_SUMMARY_SOLVE>>,
    <<REVIEW_SUMMARY_SOLVE, REVIEW_SUMMARY_EXECUTE>>,
    <<REVIEW_SUMMARY_EXECUTE, FINISHED>> }

IsPath(states) ==
  /\ Len(states) >= 2
  /\ states[1] = SELECT
  /\ states[2] = SUMMARIZE
  /\ \A i \in 1..(Len(states) - 1) : <<states[i], states[i + 1]>> \in Edges
  /\ \A i, j \in 1..Len(states) : states[i] = states[j] => i = j

\* C4: the state list of a case created from a parent starts with
\* [SELECT, SUMMARIZE] and is at every time a path of the transition graph in
\* which no label occurs twice.
C4_StatesFollowGraph ==
  \A k \in Cases : ~IsSeed(test_cases[k]) => IsPath(test_cases[k].states)

C4_Witness ==
  \E k \in Cases :
    /\ ~IsSeed(test_cases[k])
    /\ Len(test_cases[k].states) = 9
    /\ current_state(test_cases[k]) = FINISHED

\* C5 as stated: a case whose last state is FINISHED is never changed again.
C5_NoMutationAfterFinished ==
  [][ \A k \in Kept :
        current_state(test_cases[k]) = FINISHED => test_cases'[k] = test_cases[k] ]_vars

SelectionStats == {"selected_cnt", "successful_generation_cnt"}

\* C5 amended: on a FINISHED case only the selection statistics are written
\* later (the writes take effect); the state list, time_taken and every other
\* field stay as they were when the case finished.
C5_FinishedKeepsAllButSelectionStats ==
  [][ \A k \in Kept :
        current_state(test_cases[k]) = FINISHED =>
          \A f \in DOMAIN test_cases[k] \ SelectionStats :
            test_cases'[k][f] = test_cases[k][f] ]_vars

C5_Witness ==
  \E k \in Cases :
    /\ current_state(test_cases[k]) = FINISHED
    /\ test_cases[k].selected_cnt >= 1
    /\ test_cases[k].time_taken < now

\* C6 as stated: for every case, seeds included, is_target_covered implies
\* is_satisfiable and is_satisfiable implies that exec_code is present.
C6_CoveredSatisfiableCode ==
  \A k \in Cases :
    /\ test_cases[k].is_target_covered => test_cases[k].is_satisfiable
    /\ test_cases[k].is_satisfiable => test_cases[k].exec_code # NoneStr

\* C6 amended: for every case created from a parent is_target_covered implies
\* is_satisfiable; for every case is_satisfiable implies that exec_code is
\* present; a seed has is_target_covered set, is_satisfiable clear and an
\* exec_code.
C6_CoveredSatisfiableCodeButSeeds ==
  \A k \in Cases :
    /\ ~IsSeed(test_cases[k]) =>
         (test_cases[k].is_target_covered => test_cases[k].is_satisfiable)
    /\ test_cases[k].is_satisfiable => test_cases[k].exec_code # NoneStr
    /\ IsSeed(test_cases[k]) =>
         /\ test_cases[k].is_target_covered
         /\ ~test_cases[k].is_satisfiable
         /\ test_cases[k].exec_code # NoneStr

C6_Witness ==
  /\ \E k \in Cases : IsSeed(test_cases[k])
  /\ \E k \in Cases :
       /\ ~IsSeed(test_cases[k])
       /\ test_cases[k].is_target_covered
       /\ current_state(test_cases[k]) = FINISHED

C8_ParentExistsAndIsOlder ==
  \A k \in Cases :
    ~IsSeed(test_cases[k]) =>
      /\ test_cases[k].src_id \in Cases
      /\ test_cases[k].src_id < test_cases[k].id

\* C9: a case without src_id has the state list [FINISHED], at creation and
\* after any later operation on the corpus.
C9_SeedIsFinished ==
  \A k \in Cases : IsSeed(test_cases[k]) => test_cases[k].states = <<FINISHED>>

C9_Witness ==
  \E k, c \in Cases :
    /\ IsSeed(test_cases[k])
    /\ test_cases[k].selected_cnt >= 1
    /\ test_cases[c].src_id = k
    /\ current_state(test_cases[c]) = FINISHED

\* (1 - failure_ratio) + (1 if new_coverage else 0), with failure_ratio =
\* (selected - successful) / selected, and 0 when selected = 0
StatedWeight(tc) ==
  LET ratio == IF tc.selected_cnt = 0
               THEN <<0, 1>>
               ELSE <<tc.selected_cnt - tc.successful_generation_cnt, tc.selected_cnt>>
  IN  <<(ratio[2] - ratio[1]) + (IF tc.new_coverage THEN ratio[2] ELSE 0), ratio[2]>>

\* C10: the weight computed for a case of the scheduling view (a valuable
\* case) is (1 - failure_ratio) + (1 if new_coverage else 0).
C10_WeightFormula ==
  \A k \in Cases :
    is_valuable(test_cases[k]) =>
      RatioEq(get_test_case_scheduling_weight(test_cases[k]), StatedWeight(test_cases[k]))

(* ------------------------- the trace collector -------------------------- *)
\* the hit count of a block in a registry entry
Hits(entry, block) == IF entry = NoCollector THEN 0 ELSE Get(entry.block2cov, block)

\* the step is a call of collect_trace on the registry
Ingested == ingest'.n = ingest.n + 1 /\ ingest'.op = "collect_trace"

\* the blocks a trace text names, Global included
Observed(trace_str) ==
  {GLOBAL_BLOCK} \cup
  { b \in {<<"f", 1>>, <<"f", 2>>, <<"g", 9>>} :
      \E i \in 1..Len(trace_str) :
        /\ TraceMatch(trace_str[i]) # NoMatch
        /\ <<TraceMatch(trace_str[i])[2], TraceMatch(trace_str[i])[3]>> = b }

\* C11: an ingestion (add_coverage set, accounting loop run to its end) adds
\* exactly 1 to the hit count of every block the trace names, however often
\* the trace names it, and leaves every other hit count as it was, so that
\* ingesting a trace twice doubles what ingesting it once gave; an ingestion
\* that returns right after an ingestion of the same trace reports 0 newly
\* covered lines.
C11_SameTraceTwice ==
  [][ (Ingested /\ ingest'.accounted) =>
        /\ \A b \in DOMAIN file2cov'.block2cov \cup Observed(ingest'.trace) :
             Hits(file2cov', b) =
               Hits(file2cov, b) + (IF b \in Observed(ingest'.trace) THEN 1 ELSE 0)
        /\ (ingest'.again /\ ingest'.status = "returned") =>
             ingest'.new_covered_lines = 0 ]_vars

C11_Witness ==
  /\ ingest.again
  /\ ingest.status = "returned"
  /\ ingest.trace = <<"[t.c] enter f 1", "[t.c] enter f 1", "segmentation fault">>
  /\ Hits(file2cov, <<"f", 1>>) = 2
  /\ Hits(file2cov, GLOBAL_BLOCK) = 2

\* the real lines of a collector, and the innermost block of a real line
RealLines(tc) == DOMAIN tc.real_line2line

Innermost(tc, real_line) == Last(tc.line2blocks[tc.real_line2line[real_line]])

NonEmpty(tc, real_line) ==
  /\ ~IsBlank(tc.line2code[tc.real_line2line[real_line]])
  /\ tc.line2blocks[tc.real_line2line[real_line]] # << >>

\* the innermost block of the line had no hit before the step and has one after
FirstHit(tc, real_line) ==
  /\ Hits(file2cov, Innermost(tc, real_line)) = 0
  /\ Hits(file2cov', Innermost(tc, real_line)) >= 1

\* C12 as stated: the count an ingestion returns is the number of non-empty
\* real lines whose innermost block went from hit count 0 to >= 1 in it.
C12_NewLinesAreFirstHitLines ==
  [][ (Ingested /\ ingest'.status = "returned") =>
        ingest'.new_covered_lines =
          Cardinality({ l \in RealLines(file2cov') :
                          NonEmpty(file2cov', l) /\ FirstHit(file2cov', l) }) ]_vars

\* the line lies in the real range recorded for its innermost block
InOwnRange(tc, real_line) ==
  LET block == Innermost(tc, real_line)
  IN  /\ block \in DOMAIN tc.block2real_lines
      /\ tc.block2real_lines[block][1] <= real_line
      /\ real_line <= tc.block2real_lines[block][2]

\* C12 amended: the count an ingestion returns is the number of non-empty real
\* lines whose innermost block is a block of the file other than Global, lies
\* in the real range recorded for that block, and went from hit count 0 to
\* >= 1 in this ingestion; lines whose innermost block is Global are never
\* counted; hit counts never decrease, so no line is counted a second time.
C12_NewLinesAreFirstHitLinesOfBlocks ==
  [][ (Ingested /\ ingest'.status = "returned") =>
        /\ ingest'.new_covered_lines =
             Cardinality({ l \in RealLines(file2cov') :
                             /\ NonEmpty(file2cov', l)
                             /\ Innermost(file2cov', l) # GLOBAL_BLOCK
                             /\ InOwnRange(file2cov', l)
                             /\ FirstHit(file2cov', l) })
        /\ \A b \in DOMAIN file2cov'.block2cov : Hits(file2cov', b) >= Hits(file2cov, b) ]_vars

\* a block inside a block was hit for the first time together with its
\* parent, and the file has lines of its own
C12_Witness ==
  /\ source = <<"x = 1;", "enter f 1", "x = 1;", "enter f 2", "x = 1;", "exit f 2", "exit f 1">>
  /\ ingest.status = "returned"
  /\ ingest.op = "collect_trace"
  /\ ingest.new_covered_lines = 2
  /\ Hits(file2cov, <<"f", 1>>) = 1
  /\ Hits(file2cov, <<"f", 2>>) = 1

\* the hit count of a real line: that of its innermost block
LineHits(entry, tc, real_line) == Hits(entry, Innermost(tc, real_line))

\* C13: with target lines, collect_trace reports the target as covered exactly
\* when the hit count of at least one target line is greater after the call
\* than before it; without target lines it reports covered.
C13_TargetCoveredIffHitCountGrew ==
  [][ (Ingested /\ ingest'.status = "returned") =>
        IF ingest'.target_lines = NoTarget
        THEN ingest'.is_target_lines_covered
        ELSE ingest'.is_target_lines_covered <=>
               \E l \in ingest'.target_lines[1]..ingest'.target_lines[2] :
                 LineHits(file2cov', file2cov', l) > LineHits(file2cov, file2cov', l) ]_vars

\* a target that is covered by an ingestion that brings no new line, and a
\* file in which another block stays unhit
C13_Witness ==
  /\ ingest.op = "collect_trace"
  /\ ingest.status = "returned"
  /\ ingest.target_lines = <<2, 3>>
  /\ ingest.is_target_lines_covered
  /\ ingest.new_covered_lines = 0
  /\ Hits(file2cov, <<"f", 2>>) = 0

\* C15: for every block of a collector that was built, start <= end in the
\* instrumented view and in the real view, and the real start and the real end
\* are mapped to the start and the end by real_line2line.
C15_BlockRangesConsistent ==
  file2cov # NoCollector =>
    \A b \in DOMAIN file2cov.block2lines :
      /\ file2cov.block2lines[b][1] <= file2cov.block2lines[b][2]
      /\ file2cov.block2real_lines[b][1] <= file2cov.block2real_lines[b][2]
      /\ file2cov.block2real_lines[b][1] \in DOMAIN file2cov.real_line2line
      /\ file2cov.block2real_lines[b][2] \in DOMAIN file2cov.real_line2line
      /\ file2cov.real_line2line[file2cov.block2real_lines[b][1]] = file2cov.block2lines[b][1]
      /\ file2cov.real_line2line[file2cov.block2real_lines[b][2]] = file2cov.block2lines[b][2]

\* a collector with two blocks, one inside the other, and a range of more than
\* one line
C15_Witness ==
  /\ file2cov # NoCollector
  /\ Cardinality(DOMAIN file2cov.block2lines) = 2
  /\ \E b \in DOMAIN file2cov.block2lines :
       file2cov.block2lines[b][1] < file2cov.block2lines[b][2]
  /\ file2cov.instrumentation_cnt = 4

\* C16: when the parse of the file reports a structural anomaly (an exit that
\* does not match the top of the stack, a range whose end is before its start)
\* the constructor of the collector still completes: the call returns and the
\* collector is there afterwards.
C16_AnomaliesNeverRaise ==
  (ingest.op = "get_file_coverage" /\ TraceCollector(source).reported >= 1) =>
    /\ ingest.status = "returned"
    /\ file2cov # NoCollector

\* C17: collect_trace on a collector that was built, called without target
\* lines, returns whatever the trace text is.
C17_IngestionNeverRaises ==
  (ingest.op = "collect_trace" /\ file2cov # NoCollector /\ ingest.target_lines = NoTarget)
    => ingest.status = "returned"

\* the tasks whose call of collect_trace is over
Left(t) == ingesting[t].pc \in {"returned", "AssertionError"}

\* C14: when the calls of the parallel tasks are over, every block has one hit
\* per call whose trace names it (no increment is lost), the newly covered
\* lines the calls counted add up to the lines of the blocks that were hit (a
\* first hit is counted by one call), and a call reports its target as covered
\* exactly when its own trace names the block of a target line.
C14_IngestionsSerialized ==
  (\A t \in Callers : Left(t)) =>
    /\ \A b \in DOMAIN file2cov.block2cov :
         Hits(file2cov, b) = Cardinality({t \in Callers : b \in Observed(ingesting[t].trace)})
    /\ LET firsts == {t \in Callers : ingesting[t].new_covered_lines > 0}
       IN  \A b \in DOMAIN file2cov.block2real_lines :
             Hits(file2cov, b) >= 1 => Cardinality(firsts) = 1
    /\ \A t \in Callers :
         ingesting[t].target_lines # NoTarget =>
           (ingesting[t].is_target_lines_covered <=>
              \E l \in ingesting[t].target_lines[1]..ingesting[t].target_lines[2] :
                Innermost(file2cov, l) \in Observed(ingesting[t].trace))

\* C18: when the saves of the tasks have all returned, the file holds exactly
\* the complete content of one of them.
C18_FileHoldsOneCompleteContent ==
  (\A w \in Callers : writers[w].pc = "returned") =>
    \E w \in Callers : yaml_file.bytes = writers[w].content

C20_RoundTripReproducesCase ==
  restored # NoRestore => restored.raised = NoneStr /\ restored.case = original

\* C21: at no time are two save workers alive.
C21_OneSaveWorkerAlive ==
  Cardinality({w \in DOMAIN workers : Alive(workers[w])}) <= 1

\* a second worker is alive, and its save_to_file found the first one alive
C21_Witness ==
  /\ Len(workers) = 2
  /\ Alive(workers[2])
  /\ workers[2].waited

\* C22: the file a worker has written holds the registry as it was when the
\* worker's save_to_file was called, whatever collect_trace did to the
\* registry afterwards; and while a worker is alive, collect_trace can be
\* called.
C22_WorkerWritesSnapshot ==
  /\ \A w \in DOMAIN workers :
       (cov_file.state = "complete" /\ cov_file.by = w) => cov_file.data = workers[w].data
  /\ \A w \in DOMAIN workers :
       (Alive(workers[w]) /\ saver.pc = "idle" /\ ingest.n < MaxIngests) =>
         \A trace_str \in SaveTraces : ENABLED SaveMutate(trace_str)

\* a worker wrote its file after the registry had changed
C22_Witness ==
  \E w \in DOMAIN workers :
    /\ cov_file.state = "complete"
    /\ cov_file.by = w
    /\ cov_file.data.block2cov # file2cov.block2cov
    /\ ingest.op = "collect_trace"

\* C23: a successful load puts exactly the contents of the file into the
\* singleton, a failed load leaves the singleton's contents as they were.
C23_LoadReplacesOrKeeps ==
  [][ loaded' # loaded =>
        /\ loaded'.status = "loaded" => file2cov' = cov_file.data
        /\ loaded'.status = "failed" => file2cov' = file2cov ]_vars

\* the load of a file a worker had not finished failed, on a registry that
\* holds hit counts
C23_Witness ==
  /\ loaded.status = "failed"
  /\ loaded.file.state \in {"partial", "corrupt"}
  /\ Hits(file2cov, GLOBAL_BLOCK) >= 1

\* the valuable cases of the corpus the view was asked for, and their text
ViewValuable == {i \in DOMAIN tool.test_cases : is_valuable(tool.test_cases[i])}

ViewKept == {tool.view[k] : k \in DOMAIN tool.view}

ViewTruncated ==
  /\ tool.name = "get_all_scheduling_information"
  /\ tool.status = "returned"
  /\ estimate_text_token(JoinedLen(tool.test_cases, ById(ViewValuable))) > TOKEN_LIMIT

SelectionCalls ==
  { c \in UNION { { m.tool_calls[i] : i \in DOMAIN m.tool_calls } :
                    m \in { session.msg_thread[k] : k \in DOMAIN session.msg_thread } } :
      /\ c.function.name = "provide_selection"
      /\ c.function.arguments.text = "object"
      /\ c.function.arguments.test_case_id.type = "int" }

\* C25: schedule returns an id only if a provide_selection call of the session
\* named that integer and the id is one of the provided view; while no call
\* has named such an id the loop asks the model again.
C25_ReturnsValidSelection ==
  /\ session.pc = "returned" =>
       /\ session.selected_test_case_id \in Keys(session.provided_tc_info)
       /\ \E c \in SelectionCalls :
            c.function.arguments.test_case_id.value = session.selected_test_case_id
  /\ session.pc = "ask" =>
       /\ session.selected_test_case_id = NoneInt
       /\ \A c \in SelectionCalls :
            c.function.arguments.test_case_id.value \notin Keys(session.provided_tc_info)

\* schedule has returned after a selection of an id outside the view was refused
C25_Witness ==
  /\ session.pc = "returned"
  /\ \E c \in SelectionCalls :
       c.function.arguments.test_case_id.value \notin Keys(session.provided_tc_info)

\* C26: a schedule call reuses the cached thread exactly when the ids cached
\* before are not empty and all in the view; a reused thread is only extended,
\* by one message with the info of the ids not cached before, a rebuilt one
\* holds the system prompt and the whole view; afterwards the cached ids are
\* the ids of the view.
C26_CacheReusedOnSubset ==
  [][ sched_cache' # sched_cache \/ (session'.pc = "ask" /\ session.pc # "ask" /\ session.pc # "dispatch") =>
        LET view == session'.provided_tc_info
            seen == sched_cache.previous_ids
            old  == sched_cache.msg_thread
            new  == sched_cache'.msg_thread
        IN  /\ sched_cache'.previous_ids = Keys(view)
            /\ IF seen # {} /\ seen \subseteq Keys(view)
                 THEN IF Keys(view) \subseteq seen
                        THEN new = old
                        ELSE /\ Len(new) = Len(old) + 1
                             /\ IsPrefix(old, new)
                             /\ Last(new).role = "user"
                             /\ Keys(Last(new).infos) = Keys(view) \ seen
                             /\ Len(Last(new).infos) = Cardinality(Keys(view) \ seen)
                 ELSE /\ Len(new) = 2
                      /\ new[1].role = "system"
                      /\ new[2].role = "user"
                      /\ new[2].infos = view ]_vars

\* the cache holds a thread that was built for one case and extended by another
C26_Witness ==
  /\ Len(sched_cache.msg_thread) = 3
  /\ Cardinality(sched_cache.previous_ids) = 2
  /\ session.pc = "ask"

IsAssistant(k) == session.msg_thread[k].role = "assistant"

LastAssistant(k) ==
  /\ IsAssistant(k)
  /\ \A j \in (k + 1)..Len(session.msg_thread) : ~IsAssistant(j)

\* the messages that follow the response at k up to the next response
Answers(k) ==
  LET later == { j \in (k + 1)..Len(session.msg_thread) : IsAssistant(j) }
      stop  == IF later = {} THEN Len(session.msg_thread) + 1
               ELSE CHOOSE j \in later : \A i \in later : j <= i
  IN  SubSeq(session.msg_thread, k + 1, stop - 1)

\* the tool calls of the response at k that have been processed
Processed(k) ==
  IF LastAssistant(k) /\ session.pc \in {"dispatch", "raised"}
    THEN SubSeq(session.msg_thread[k].tool_calls, 1, session.next - 1)
    ELSE session.msg_thread[k].tool_calls

\* C27: in the thread of a session every response with tool calls is followed
\* by exactly one tool message per processed call, in the order of the calls
\* and with the id and name of its call, and only then by the next response;
\* a response without tool calls is followed by exactly one user message.
C27_ObservationsFollowCalls ==
  session.pc # NoneStr =>
    \A k \in DOMAIN session.msg_thread :
      IsAssistant(k) =>
        IF session.msg_thread[k].tool_calls = << >>
          THEN /\ Len(Answers(k)) = 1
               /\ Answers(k)[1].role = "user"
          ELSE /\ Len(Answers(k)) = Len(Processed(k))
               /\ \A i \in DOMAIN Answers(k) :
                    /\ Answers(k)[i].role = "tool"
                    /\ Answers(k)[i].tool_call_id = Processed(k)[i].id
                    /\ Answers(k)[i].name = Processed(k)[i].function.name

\* the model is asked a third time, after a response with two different tool
\* calls and a response without any
C27_Witness ==
  /\ session.pc = "ask"
  /\ \E k \in DOMAIN session.msg_thread :
       /\ IsAssistant(k)
       /\ Len(session.msg_thread[k].tool_calls) = 2
       /\ session.msg_thread[k].tool_calls[1].function.name
            # session.msg_thread[k].tool_calls[2].function.name
  /\ \E k \in DOMAIN session.msg_thread :
       IsAssistant(k) /\ session.msg_thread[k].tool_calls = << >>

\* observations that begin with Error:
ErrorObservations ==
  { "Error: test_case_id is not an integer.",
    "Error: Test case ID is not in the list of provided test cases." }

\* a tool call with a protocol error: arguments that are no JSON object, or a
\* test_case_id that is missing or no integer
ProtocolError(c) ==
  \/ c.function.arguments.text # "object"
  \/ /\ c.function.name = "provide_selection"
     /\ c.function.arguments.test_case_id.type # "int"

\* C28: no tool call with a protocol error ends schedule with an exception:
\* every processed one is answered by an observation that begins with Error:
\* and selects nothing.
C28_ProtocolErrorIsObservation ==
  /\ session.pc # "raised"
  /\ session.pc # NoneStr =>
       \A k \in DOMAIN session.msg_thread :
         IsAssistant(k) =>
           \A i \in DOMAIN Answers(k) :
             (Answers(k)[i].role = "tool" /\ ProtocolError(Processed(k)[i])) =>
               Answers(k)[i].content \in ErrorObservations

\* observations of a rejected provide_solution call
SolutionErrors ==
  { "Error: is_satisfiable is not a boolean.",
    "Error: Python execution function is required.",
    "Error: Python execution must contain 'def execute_program'.",
    "Running the given solution failed" }

ProvideSolutionCalled == tool.name = "provide_solution"

\* C29: provide_solution returns a program only for the verdict satisfiable
\* and a program that contains def execute_program and survives the smoke
\* run, and then it returns that program; the verdict unsatisfiable returns
\* no program; every other call returns an error observation and no program.
C29_SolutionAcceptedAfterSmokeRun ==
  ProvideSolutionCalled =>
    /\ tool.result[3] # NoneStr =>
         /\ tool.is_satisfiable = "True"
         /\ tool.python_execution \in {"def execute_program(timeout): raise"} \cup Codes
         /\ tool.python_execution \in Codes
         /\ tool.result[3] = tool.python_execution
         /\ tool.result[2]
    /\ tool.is_satisfiable = "False" =>
         /\ tool.result[3] = NoneStr
         /\ ~tool.result[2]
    /\ (tool.is_satisfiable # "False" /\ tool.result[1] # "Solution accepted.") =>
         /\ tool.result[1] \in SolutionErrors
         /\ tool.result[3] = NoneStr

\* a program with the entry point that throws in the smoke run was rejected
C29_Witness ==
  /\ ProvideSolutionCalled
  /\ tool.is_satisfiable = "True"
  /\ tool.python_execution = "def execute_program(timeout): raise"
  /\ tool.result[3] = NoneStr

SelectTargetBranchCalled == tool.name = "select_target_branch"

TargetBranchErrors ==
  { "Error: target_branch is not provided or it is empty.",
    "Error: justification is not provided or it is empty.",
    "Error: expected_covered_lines is not provided or it is empty.",
    "Error: File does not exist.",
    "Error: File is a directory.",
    "Error: Invalid line range.",
    "Error: Line range is out of bounds." }

\* C30: select_target_branch selects only a file that exists and is no
\* directory and a line range with 1 <= start <= end <= number of real lines
\* of the file, and returns the normalized path with [start, end]; otherwise
\* it returns an Error observation and no selection.
C30_SelectionInBounds ==
  SelectTargetBranchCalled =>
    IF tool.result.is_selected
      THEN LET selected == tool.result.expected_covered_lines
           IN  /\ selected[1] = "t.c"
               /\ tool.expected_covered_lines.file_path \in {"t.c", "./t.c", "/proj/t.c"}
               /\ 1 <= selected[2][1]
               /\ selected[2][1] <= selected[2][2]
               /\ selected[2][2] <= get_real_line_size(file2cov)
      ELSE /\ tool.result.observation \in TargetBranchErrors
           /\ tool.result.expected_covered_lines = NoSelection

RequestCodeCalled == tool.name = "request_code"

\* C31: every request_code response states the attempts that are left, and a
\* request made after MAX_CODE_REQUEST_ATTEMPTS requests of the session
\* returns no code.
C31_CodeRequestsCapped ==
  RequestCodeCalled =>
    /\ tool.result.note # NoneStr
    /\ tool.result.left = Max(tool.remaining_attempts, 0)
    /\ session.code_requests > MAX_CODE_REQUEST_ATTEMPTS => tool.result.code_snippets = << >>

\* C32: when a state is appended to a case that was not FINISHED, time_taken
\* of the case is the elapsed run time of that moment.
C32_TransitionUpdatesTime ==
  [][ \A k \in Kept :
        ( /\ Len(test_cases'[k].states) = Len(test_cases[k].states) + 1
          /\ current_state(test_cases[k]) # FINISHED )
        => test_cases'[k].time_taken = now' ]_vars

\* the responses of the session, in the order of the model calls
RECURSIVE ResponsesOf(_)
ResponsesOf(thread) ==
  IF thread = << >> THEN << >>
  ELSE IF Last(thread).role = "assistant"
         THEN Append(ResponsesOf(SubSeq(thread, 1, Len(thread) - 1)), Last(thread).tool_calls)
         ELSE ResponsesOf(SubSeq(thread, 1, Len(thread) - 1))

\* the labels of a response: the names of its tool calls, non_tool without any
LabelsOf(tool_calls) ==
  IF tool_calls = << >> THEN <<"non_tool">>
  ELSE [k \in DOMAIN tool_calls |-> tool_calls[k].function.name]

Attributed(call, part) ==
  { e \in DOMAIN session.usage_details :
      session.usage_details[e].call = call /\ session.usage_details[e].part = part }

\* C33: the input part of the usage of every model call of a session is
\* attributed once, to the labels of the response before it (INITIAL for the
\* first call), and its output part once, to the labels of its own response,
\* as soon as the response is processed.
C33_UsageAttributedOnce ==
  (session.pc \in {"ask", "dispatch", "returned", "raised"}) =>
    LET responses == ResponsesOf(session.msg_thread)
    IN  \A n \in DOMAIN responses :
          /\ Cardinality(Attributed(n, "input")) = 1
          /\ \A e \in Attributed(n, "input") :
               session.usage_details[e].labels =
                 IF n = 1 THEN <<"INITIAL">> ELSE LabelsOf(responses[n - 1])
          /\ (n < Len(responses) \/ session.pc # "dispatch") =>
               /\ Cardinality(Attributed(n, "output")) = 1
               /\ \A e \in Attributed(n, "output") :
                    session.usage_details[e].labels = LabelsOf(responses[n])

RECURSIVE SumOfTotals(_, _)
SumOfTotals(usage, labels) ==
  IF labels = {} THEN 0
  ELSE LET label == CHOOSE l \in labels : TRUE
       IN  usage[label].TOTAL.call_cnt + SumOfTotals(usage, labels \ {label})

\* C34: the usage map of a case has the key TOTAL, and after any add_usage
\* calls TOTAL is the sum of the totals of the usages recorded under the state
\* labels of the map.
C34_TotalIsSumOfStates ==
  original # NoCase =>
    /\ "TOTAL" \in DOMAIN original.usage
    /\ original.usage.TOTAL.call_cnt
         = SumOfTotals(original.usage, DOMAIN original.usage \ {"TOTAL"})

\* the blocks of all the markers of one trace line
MarkedBlocks(line) ==
  IF FileTraceMatches(line) # << >>
  THEN { <<FileTraceMatches(line)[k][3], FileTraceMatches(line)[k][4]>> :
           k \in 1..Len(FileTraceMatches(line)) }
  ELSE IF TraceMatch(line) # NoMatch
  THEN { <<TraceMatch(line)[2], TraceMatch(line)[3]>> }
  ELSE {}

\* C35: an ingestion (add_coverage set, accounting loop run to its end) raises
\* the hit count of the block of every marker of every trace line, also of a
\* marker that is not the first one of its line.
C35_EveryMarkerCounts ==
  [][ (Ingested /\ ingest'.accounted) =>
        \A i \in 1..Len(ingest'.trace) :
          \A b \in MarkedBlocks(ingest'.trace[i]) :
            Hits(file2cov', b) = Hits(file2cov, b) + 1 ]_vars

\* C36: rendering the execution summary succeeds for every parsed file and
\* every trace: a call of collect_trace that only renders (no accounting, no
\* target lines) on a file whose collector was built returns.
C36_RenderingSucceeds ==
  [][ (/\ Ingested
       /\ ~ingest'.add_coverage
       /\ ingest'.target_lines = NoTarget
       /\ file2cov' # NoCollector) => ingest'.status = "returned" ]_vars

\* all the file-qualified markers of a trace, in order of appearance
RECURSIVE FileMarkers(_)
FileMarkers(trace) ==
  IF trace = << >> THEN << >>
  ELSE FileTraceMatches(trace[1]) \o FileMarkers(SubSeq(trace, 2, Len(trace)))

\* the positions at which a maximal run of markers of one (file, function)
\* begins, and the position at which the run that begins at s ends
RunStarts(markers) ==
  { i \in 1..Len(markers) :
      i = 1 \/ <<markers[i][1], markers[i][3]>> # <<markers[i - 1][1], markers[i - 1][3]>> }

RunEnd(markers, s) ==
  IF \E t \in RunStarts(markers) : t > s
  THEN (CHOOSE t \in RunStarts(markers) :
          t > s /\ \A u \in RunStarts(markers) : u > s => t <= u) - 1
  ELSE Len(markers)

\* one entry per maximal run, in order of appearance, with the block ids the
\* run enters
RunEntries(markers) ==
  [ k \in 1..Cardinality(RunStarts(markers)) |->
      LET s == CHOOSE t \in RunStarts(markers) :
                 Cardinality({u \in RunStarts(markers) : u < t}) = k - 1
      IN  <<markers[s][1], markers[s][3],
            { markers[j][4] : j \in {i \in s..RunEnd(markers, s) : markers[i][2] = "enter"} }>> ]

\* C37: trace_compress returns, in order of appearance, one entry per maximal
\* run of consecutive markers of the same (file, function), each with the
\* distinct block ids entered in the run; a trace without file-qualified
\* markers gives the empty chain.
C37_OneEntryPerRun ==
  tool.name = "trace_compress" => tool.call_chain = RunEntries(FileMarkers(tool.trace))

\* C38: after load_testcases the counter is 0 when no case was loaded (the
\* queue directory is missing or empty) and otherwise 1 + the largest loaded
\* id, and every key of the map holds a case with that id.
C38_CounterAfterLoad ==
  [][ Len(loads') = Len(loads) + 1 =>
        /\ next_testcase_id' = IF DOMAIN test_cases' = {} THEN 0
                               ELSE MaxOf(DOMAIN test_cases') + 1
        /\ \A k \in DOMAIN test_cases' : test_cases'[k].id = k ]_vars

\* C39: when no create_new_testcase call is under way, the selected_cnt of
\* every case is the number of calls that created a child from it, whatever
\* the interleaving of the calls was (no increment is lost).
C39_SelectedCountsChildren ==
  (\A t \in Callers : calls[t].pc \in {"idle", "returned", "raised"}) =>
    \A p \in DOMAIN test_cases :
      test_cases[p].src_id = NoneInt =>
        test_cases[p].selected_cnt =
          Cardinality({t \in Callers : calls[t].pc = "returned" /\ calls[t].src_id = p})

\* the infos the user messages of a thread hold
InfosOf(thread) ==
  UNION { { thread[m].infos[j] : j \in DOMAIN thread[m].infos } :
            m \in { n \in DOMAIN thread : thread[n].role = "user" } }

\* C40: the thread of a scheduling round holds, for every id of the provided
\* view, the info that was provided for it in this round (with the selected_cnt
\* of this round), also when the cached thread is reused; and the cached thread
\* holds no response of the model and no observation of a tool.
C40_ThreadHoldsCurrentInfo ==
  /\ session.pc # NoneStr =>
       \A k \in DOMAIN session.provided_tc_info :
         session.provided_tc_info[k] \in InfosOf(session.msg_thread)
  /\ \A m \in DOMAIN sched_cache.msg_thread :
       sched_cache.msg_thread[m].role \in {"system", "user"}

\* a caller whose from_src has built its case
HasCase(t) == calls[t].pc \notin {"idle", "from_src", "raised"}

\* C2: when parallel tasks call create_new_testcase no two of the cases they
\* get have the same id, every entry of the map holds the case of that id, and
\* the case a call has inserted stays in the map under its id.
C2_AllocationSerialized ==
  /\ \A t, u \in Callers :
       (t # u /\ HasCase(t) /\ HasCase(u)) => calls[t].testcase.id # calls[u].testcase.id
  /\ \A k \in Cases : test_cases[k].id = k
  /\ \A t \in Callers :
       calls[t].pc \in {"next_read", "next_write", "save", "returned"} =>
         calls[t].testcase.id \in Cases

====
